---------------------------- MODULE Spec2Model ----------------------------
(***************************************************************************)
(* A model of encoda's codec dispatch (match / handled / decode / encode / *)
(* convert), of the codecs it dispatches to, of the shared rendering       *)
(* browser (util/puppeteer) and of the JATS citation bookkeeping.          *)
(*                                                                         *)
(* Strings of the program are TLA+ strings.  The functions of Node's path  *)
(* module and of the mime package are tabulated over the strings the model *)
(* draws its inputs from.                                                  *)
(***************************************************************************)
EXTENDS Integers, Sequences, FiniteSets, TLC

\* JavaScript's undefined.  A template literal prints it as "undefined",
\* which is the name of no codec module.
UNDEF == "undefined"

\* A value is truthy when it is neither undefined nor the empty string.
Truthy(x) == x # UNDEF /\ x # ""

(***************************************************************************)
(* Inputs                                                                  *)
(***************************************************************************)

\* A raw document that carries the JATS DOCTYPE (first alternative of the
\* regex of JatsCodec.sniff).
RawJats == "<!DOCTYPE article PUBLIC \""

\* A raw DOI (matches DoiCodec.regex).
RawDoi == "10.5555/12345678"

\* A raw PLoS DOI (matches PlosCodec.regex, journal code pone).
RawPlos == "10.1371/journal.pone.0091296"

\* Contents handed to match/decode/convert: paths, a URL, raw content.
Paths == {"a.md", "a.jats", "a.pdf", "a.doi", "a.foo"}

RawContents == {"http://e.org/a", RawJats, RawDoi, RawPlos, "plain text"}

Contents == Paths \cup RawContents

\* Formats: extension names and media types.
OdsMediaType == "application/vnd.oasis.opendocument.spreadsheet"

MediaTypeFormats ==
  {"text/markdown", "application/jats+xml", "application/pdf", OdsMediaType}

ExtNameFormats == {"md", "jats", "pdf", "doi", "plos", "foo"}

Formats == ExtNameFormats \cup MediaTypeFormats

\* format.includes('/')
includesSlash(format) == format \in MediaTypeFormats

\* vfile.isPath: is the content path-like?
isPath(content) == content \in Paths

\* path.basename
basename(content) ==
  CASE content = "http://e.org/a" -> "a"
    [] content = RawDoi -> "12345678"
    [] content = RawPlos -> "journal.pone.0091296"
    [] OTHER -> content

\* path.extname(content).slice(1).toLowerCase()
extname(content) ==
  CASE content = "a.md" -> "md"
    [] content = "a.jats" -> "jats"
    [] content = "a.pdf" -> "pdf"
    [] content = "a.doi" -> "doi"
    [] content = "a.foo" -> "foo"
    [] content = "http://e.org/a" -> "org/a"
    [] content = RawDoi -> "5555/12345678"
    [] content = RawPlos -> "0091296"
    [] OTHER -> ""

\* mime.getType(x) || undefined, of a path or of an extension name.
mimeGetType(x) ==
  CASE x \in {"a.md", "md"} -> "text/markdown"
    [] x \in {"a.pdf", "pdf"} -> "application/pdf"
    [] OTHER -> UNDEF

\* /^[a-z]+:\/\//.test(content)
looksLikeUri(content) == content = "http://e.org/a"

\* codecRegexes: [['http', /^https?:\/\//]]
codecRegexes == << <<"http", {"http://e.org/a"}>> >>

(***************************************************************************)
(* The codecs                                                              *)
(***************************************************************************)

\* The entries of codecList whose codec the model carries, in list order.
codecList == <<"http", "ods", "jats", "md", "pdf">>

\* The directories under ./codecs that hold a codec: those of the list and
\* the two that are in no list (doi, plos).
Modules == {"http", "ods", "jats", "md", "pdf", "doi", "plos"}

NoNames == {}

HttpCodec ==
  [name |-> "http", fileNames |-> NoNames, extNames |-> NoNames,
   mediaTypes |-> NoNames, sniff |-> FALSE]

ODSCodec ==
  [name |-> "ods", fileNames |-> NoNames, extNames |-> NoNames,
   mediaTypes |-> {OdsMediaType}, sniff |-> FALSE]

JatsCodec ==
  [name |-> "jats", fileNames |-> NoNames, extNames |-> {"jats"},
   mediaTypes |-> {"application/jats+xml"}, sniff |-> TRUE]

MdCodec ==
  [name |-> "md", fileNames |-> NoNames, extNames |-> NoNames,
   mediaTypes |-> {"text/markdown", "text/x-markdown"}, sniff |-> FALSE]

PDFCodec ==
  [name |-> "pdf", fileNames |-> NoNames, extNames |-> NoNames,
   mediaTypes |-> {"application/pdf"}, sniff |-> FALSE]

DoiCodec ==
  [name |-> "doi", fileNames |-> NoNames, extNames |-> {"doi"},
   mediaTypes |-> {"text/x-doi"}, sniff |-> TRUE]

PlosCodec ==
  [name |-> "plos", fileNames |-> NoNames, extNames |-> NoNames,
   mediaTypes |-> NoNames, sniff |-> TRUE]

\* The value of the variable `codec` before any module gave one.
NoCodec ==
  [name |-> UNDEF, fileNames |-> NoNames, extNames |-> NoNames,
   mediaTypes |-> NoNames, sniff |-> FALSE]

\* getCodec(exports): an instance of the first export that extends Codec.
getCodec(moduleName) ==
  CASE moduleName = "http" -> HttpCodec
    [] moduleName = "ods" -> ODSCodec
    [] moduleName = "jats" -> JatsCodec
    [] moduleName = "md" -> MdCodec
    [] moduleName = "pdf" -> PDFCodec
    [] moduleName = "doi" -> DoiCodec
    [] moduleName = "plos" -> PlosCodec
    [] OTHER -> NoCodec

(***************************************************************************)
(* State                                                                   *)
(***************************************************************************)
VARIABLES
  failing,      \* env: the codec modules whose import() rejects
  fileHasJats,  \* env: the files at the model's paths carry the JATS DOCTYPE
  mdEmpty,      \* env: encodeMarkdown yields '' for the node (md/index.ts:200)
  api,          \* facade: the exported function that was called
  args,         \* facade: its arguments
  pc,           \* facade: position of the call
  result,       \* facade: what the call settled with
  events,       \* facade: starts and ends of decode, encode and write, in order
  node,         \* facade: the node decode returned / encode was given
  outputFile,   \* facade: the VFile encode returned to convert
  written,      \* effects: <<path, writer>> per file written, in order
  launched,     \* effects: number of browser pages requested
  fetched,      \* effects: number of network requests made
  mpc,          \* match: position ("idle","fast","load","test","return","throw")
  mContent, mFormat, mIsOutput,   \* match: its arguments
  fileName, extName, mediaType,   \* match: the resolved keys
  idx,          \* match: index of the for loop over codecList
  codec,        \* match: the variable `codec`
  imports,      \* match: the import() calls made, in order
  tested,       \* match: <<list entry, codec tested for it>> per iteration
  matchedBy,    \* match: the criterion that returned the codec
  message,      \* match: the message of the thrown error
  browser,      \* puppeteer: the module's `browser` (0 is undefined)
  lockHolder,   \* puppeteer: the caller whose function the lock runs (0: none)
  lockQueue,    \* puppeteer: the callers the lock keeps waiting, in order
  cpc,          \* puppeteer: position of each caller
  cop,          \* puppeteer: the function each caller is in
  calls,        \* puppeteer: number of calls each caller has made
  got,          \* puppeteer: the browser each caller's last startup returned
  waited,       \* puppeteer: the callers whose call had to wait for the lock
  launchLog,    \* puppeteer: per browser launched, the number of closes before
  closes,       \* puppeteer: number of browsers closed
  live,         \* puppeteer: the browsers launched and not closed
  handed,       \* puppeteer: <<closes, browser>> per browser startup returned
  outcome,      \* puppeteer: how the last call of each caller settled
  cli,          \* cli: position of the main function, and how its shutdown settled
  sheet,        \* sheet: the call of SheetConverter.export and what it wrote
  stage,        \* jats: position of encodeArticle
  state,        \* jats: the EncodeState of encodeArticle
  xrefs,        \* jats: the <xref> elements created, in order
  references,   \* jats: the entries of article.references encoded so far
  bodyNodes,    \* jats: the nodes of article.content encoded so far
  earlier,      \* jats: per earlier encodeArticle call, what it counted
  mdStage,      \* md: position of the Markdown codec's caller
  mdArticle,    \* md: the Article given to encodeMarkdown
  mdString,     \* md: the Markdown text encoded, or given to decodeMarkdown
  mdDecoded,    \* md: the node decodeMarkdown returned
  xmlStage,     \* jats: position of the JATS codec's caller
  xmlBody,      \* jats: the body and references given to encodeArticle
  xmlDoc,       \* jats: the JATS document encoded, or given to decode
  xmlDecoded    \* jats: the body and references decodeArticle returned

matchVars ==
  <<mpc, mContent, mFormat, mIsOutput, fileName, extName, mediaType, idx,
    codec, imports, tested, matchedBy, message>>

envVars == <<failing, fileHasJats, mdEmpty>>

effectVars == <<written, launched, fetched>>

facadeVars == <<api, args, pc, result, events, node, outputFile>>

browserVars ==
  <<browser, lockHolder, lockQueue, cpc, cop, calls, got, waited, launchLog,
    closes, live, handed, outcome>>

\* The state outside the facade.
jatsVars == <<stage, state, xrefs, references, bodyNodes, earlier>>

mdVars == <<mdStage, mdArticle, mdString, mdDecoded>>

xmlVars == <<xmlStage, xmlBody, xmlDoc, xmlDecoded>>

others == <<browserVars, jatsVars, mdVars, xmlVars, cli, sheet>>

\* The state of the facade.
facade == <<envVars, facadeVars, effectVars, matchVars>>

vars == <<facade, others>>

\* The state outside the shared browser, the JATS encoder, the Markdown
\* codec.
notBrowser == <<facade, jatsVars, mdVars, xmlVars, cli, sheet>>

notJats == <<facade, browserVars, mdVars, xmlVars, cli, sheet>>

notMd == <<facade, browserVars, jatsVars, xmlVars, cli, sheet>>

notXml == <<facade, browserVars, jatsVars, mdVars, cli, sheet>>

\* The state the CLI and the shared browser leave alone.
notCli == <<facade, jatsVars, mdVars, xmlVars, sheet>>

\* The state SheetConverter leaves alone.
notSheet == <<facade, browserVars, jatsVars, mdVars, xmlVars, cli>>

(***************************************************************************)
(* match (index.ts lines 75-177)                                           *)
(***************************************************************************)

\* Lines 81-114: the keys a codec is matched by.
ResolveKeys(content, format, isOutput) ==
  LET derived == Truthy(content) /\ (isPath(content) \/ isOutput)
      fileName0 == IF derived THEN basename(content) ELSE UNDEF
      extName0 == IF derived THEN extname(content) ELSE UNDEF
      mediaType0 == IF derived THEN mimeGetType(content) ELSE UNDEF
      hits == {k \in 1..Len(codecRegexes) : content \in codecRegexes[k][2]}
      first == CHOOSE k \in hits : \A j \in hits : k <= j
  IN  IF Truthy(format)
      THEN IF includesSlash(format)
           THEN [fileName |-> fileName0, extName |-> extName0,
                 mediaType |-> format]
           ELSE [fileName |-> fileName0, extName |-> format,
                 mediaType |-> mimeGetType(format)]
      ELSE IF Truthy(content) /\ looksLikeUri(content) /\ hits # {}
           THEN [fileName |-> fileName0, extName |-> codecRegexes[first][1],
                 mediaType |-> mediaType0]
           ELSE [fileName |-> fileName0, extName |-> extName0,
                 mediaType |-> mediaType0]

\* import(`./codecs/${name}`) resolves.
importOk(name, failed) == name \in Modules /\ name \notin failed

\* Lines 145-151: the value of `codec` after the try/catch of an iteration.
\* A rejected import leaves the variable as the previous iteration set it.
loadCodec(previous, name, failed) ==
  IF importOk(name, failed) THEN getCodec(name) ELSE previous

\* Line 153: `if (!codec) break`.
breaksLoop(cd) == cd.name = UNDEF

\* JatsCodec.sniff, DoiCodec.sniff, PlosCodec.sniff.
sniff(cd, content, hasJats) ==
  CASE cd.name = "jats" ->
         IF content \in Paths THEN hasJats ELSE content = RawJats
    [] cd.name = "doi" -> content \in {RawDoi, RawPlos}
    [] cd.name = "plos" -> content = RawPlos
    [] OTHER -> FALSE

\* A variant of criterion that sniffs before it compares the keys.
criterionSniffFirst(cd, content, fName, eName, mType, hasJats) ==
  IF Truthy(content) /\ cd.sniff /\ sniff(cd, content, hasJats) THEN "sniff"
  ELSE IF Truthy(fName) /\ fName \in cd.fileNames THEN "fileName"
  ELSE IF Truthy(eName) /\ eName \in cd.extNames THEN "extName"
  ELSE IF Truthy(mType) /\ mType \in cd.mediaTypes THEN "mediaType"
  ELSE "none"

\* Lines 155-169: the first criterion the codec satisfies, or "none".
criterion(cd, content, fName, eName, mType, hasJats) ==
  IF Truthy(fName) /\ fName \in cd.fileNames THEN "fileName"
  ELSE IF Truthy(eName) /\ eName \in cd.extNames THEN "extName"
  ELSE IF Truthy(mType) /\ mType \in cd.mediaTypes THEN "mediaType"
  ELSE IF Truthy(content) /\ cd.sniff /\ sniff(cd, content, hasJats)
       THEN "sniff"
  ELSE "none"

\* Lines 172-176: the message of the error.
noCodecMessage(content, format) ==
  "No codec could be found"
    \o (IF Truthy(content) THEN " for content \"" \o content \o "\"" ELSE "")
    \o (IF Truthy(format) THEN " for format \"" \o format \o "\"" ELSE "")
    \o "."

\* Lines 144-170 as a function: the scan of the list from entry k on, with
\* `previous` the value of `codec` the iteration starts with.
RECURSIVE scanList(_, _, _, _, _, _)
scanList(k, previous, content, keys, failed, hasJats) ==
  IF k > Len(codecList)
  THEN [ok |-> FALSE, codec |-> UNDEF, by |-> "none"]
  ELSE LET cd == loadCodec(previous, codecList[k], failed)
           by == criterion(cd, content, keys.fileName, keys.extName,
                           keys.mediaType, hasJats)
       IN  IF breaksLoop(cd)
           THEN [ok |-> FALSE, codec |-> UNDEF, by |-> "none"]
           ELSE IF by # "none"
                THEN [ok |-> TRUE, codec |-> cd.name, by |-> by]
                ELSE scanList(k + 1, cd, content, keys, failed, hasJats)

\* match as a function of its arguments and of the environment: the fast
\* path (lines 134-142), then the scan.
match(content, format, isOutput, failed, hasJats) ==
  LET keys == ResolveKeys(content, format, isOutput)
  IN  IF importOk(keys.extName, failed) /\ getCodec(keys.extName).name # UNDEF
      THEN [ok |-> TRUE, codec |-> keys.extName, by |-> "module"]
      ELSE scanList(1, NoCodec, content, keys, failed, hasJats)

\* match is called: lines 80-114 run up to the first await.
startMatch(content, format, isOutput) ==
  LET keys == ResolveKeys(content, format, isOutput)
  IN  /\ mpc' = "fast"
      /\ mContent' = content
      /\ mFormat' = format
      /\ mIsOutput' = isOutput
      /\ fileName' = keys.fileName
      /\ extName' = keys.extName
      /\ mediaType' = keys.mediaType
      /\ idx' = 0
      /\ codec' = NoCodec
      /\ imports' = <<>>
      /\ tested' = <<>>
      /\ matchedBy' = "none"
      /\ message' = UNDEF

\* Lines 134-142: the fast path, a module named after the extension name.
MatchFastPath ==
  /\ mpc = "fast"
  /\ imports' = Append(imports, extName)
  /\ IF importOk(extName, failing) /\ getCodec(extName).name # UNDEF
     THEN /\ codec' = getCodec(extName)
          /\ matchedBy' = "module"
          /\ mpc' = "return"
          /\ idx' = idx
     ELSE /\ codec' = NoCodec
          /\ matchedBy' = matchedBy
          /\ mpc' = "load"
          /\ idx' = 1
  /\ UNCHANGED <<mContent, mFormat, mIsOutput, fileName, extName, mediaType,
                 tested, message>>
  /\ UNCHANGED <<others, envVars, facadeVars, effectVars>>

\* Lines 144-153: one iteration's import, or the end of the list.
MatchLoad ==
  /\ mpc = "load"
  /\ IF idx > Len(codecList)
     THEN /\ mpc' = "throw"
          /\ UNCHANGED <<codec, imports>>
     ELSE LET cd == loadCodec(codec, codecList[idx], failing)
          IN  /\ imports' = Append(imports, codecList[idx])
              /\ codec' = cd
              /\ mpc' = IF breaksLoop(cd) THEN "throw" ELSE "test"
  /\ UNCHANGED <<mContent, mFormat, mIsOutput, fileName, extName, mediaType,
                 idx, tested, matchedBy, message>>
  /\ UNCHANGED <<others, envVars, facadeVars, effectVars>>

\* Lines 155-169: the criteria, tested on the variable `codec`.
MatchTest ==
  /\ mpc = "test"
  /\ tested' = Append(tested, <<codecList[idx], codec.name>>)
  /\ LET by == criterion(codec, mContent, fileName, extName, mediaType,
                         fileHasJats)
     IN  IF by # "none"
         THEN /\ matchedBy' = by
              /\ mpc' = "return"
              /\ idx' = idx
         ELSE /\ matchedBy' = matchedBy
              /\ mpc' = "load"
              /\ idx' = idx + 1
  /\ UNCHANGED <<mContent, mFormat, mIsOutput, fileName, extName, mediaType,
                 codec, imports, message>>
  /\ UNCHANGED <<others, envVars, facadeVars, effectVars>>

(***************************************************************************)
(* The codecs' decode and encode.  Each yields whether it resolved, its    *)
(* value or error message, and what it did to the world.                   *)
(***************************************************************************)
NoWrites == <<>>

Outcome(ok, value, launches, fetches, writes) ==
  [ok |-> ok, value |-> value, launches |-> launches, fetches |-> fetches,
   writes |-> writes]

\* A variant of parse that asks for a page of the browser before it throws.
parseAfterPage(file) ==
  Outcome(FALSE, "Parsing of PDF files is not supported.", 1, 0, <<>>)

\* pdf.ts parse (lines 28-30).
parse(file) ==
  Outcome(FALSE, "Parsing of PDF files is not supported.", 0, 0, NoWrites)

\* pdf.ts unparse (lines 42-63): a page of the browser renders the HTML;
\* page.pdf writes the file itself when it is given a path.
unparse(filePath) ==
  Outcome(TRUE, "%PDF-", 1, 0,
          IF Truthy(filePath) THEN <<<<filePath, "page.pdf">>>> ELSE NoWrites)

\* DoiCodec.decode (doi/index.ts lines 25-31): the content must match the
\* regex; the DOI is then resolved over the network by the CSL codec.
\* The file a.doi holds a DOI.
DoiDecode(content) ==
  IF content \in {RawDoi, RawPlos, "a.doi"}
  THEN Outcome(TRUE, "node:doi", 0, 1, NoWrites)
  ELSE Outcome(FALSE, "Unable to parse content", 0, 0, NoWrites)

\* DoiCodec.encode (doi/index.ts lines 33-35).
DoiEncode ==
  Outcome(FALSE, "Unparsing to DOI is not yet implemented", 0, 0, NoWrites)

\* PlosCodec.decode (plos/index.ts lines 58-98): the identifier must match;
\* the manuscript is fetched, then (here) one graphic is downloaded to a
\* temporary directory.
PlosDecode(content) ==
  IF content = RawPlos
  THEN Outcome(TRUE, "node:plos", 0, 2, <<<<"tmp/g001.png", "http.download">>>>)
  ELSE Outcome(FALSE, "Unable to parse identifier as PLoS DOI", 0, 0, NoWrites)

\* PlosCodec.encode (plos/index.ts lines 100-102).
PlosEncode ==
  Outcome(FALSE, "Encoding to a PLoS article is not yet implemented", 0, 0,
          NoWrites)

\* JatsCodec.decode / encode (jats lines 94-112): no effect on the world.
JatsDecode == Outcome(TRUE, "node:jats", 0, 0, NoWrites)

JatsEncode == Outcome(TRUE, "<?xml", 0, 0, NoWrites)

\* MdCodec.decode / encode (md/index.ts lines 72-93).
MdDecode == Outcome(TRUE, "node:md", 0, 0, NoWrites)

MdEncode(empty) == Outcome(TRUE, IF empty THEN "" ELSE "# md", 0, 0, NoWrites)

\* ODSCodec.decode / encode: both are handed to the spreadsheet codec.
OdsDecode == Outcome(TRUE, "node:ods", 0, 0, NoWrites)

OdsEncode == Outcome(TRUE, "PK", 0, 0, NoWrites)

\* The codec of remote content: it fetches the content.
HttpDecode == Outcome(TRUE, "node:http", 0, 1, NoWrites)

HttpEncode == Outcome(FALSE, "Encoding to HTTP is not supported", 0, 0, NoWrites)

\* codec.decode(file)
codecDecode(name, content) ==
  CASE name = "pdf" -> parse(content)
    [] name = "doi" -> DoiDecode(content)
    [] name = "plos" -> PlosDecode(content)
    [] name = "jats" -> JatsDecode
    [] name = "md" -> MdDecode
    [] name = "ods" -> OdsDecode
    [] OTHER -> HttpDecode

\* codec.encode(node, options)
codecEncode(name, filePath, empty) ==
  CASE name = "pdf" -> unparse(filePath)
    [] name = "doi" -> DoiEncode
    [] name = "plos" -> PlosEncode
    [] name = "jats" -> JatsEncode
    [] name = "md" -> MdEncode(empty)
    [] name = "ods" -> OdsEncode
    [] OTHER -> HttpEncode

applyEffects(r) ==
  /\ launched' = launched + r.launches
  /\ fetched' = fetched + r.fetches
  /\ written' = written \o r.writes

(***************************************************************************)
(* The facade (index.ts lines 185-330)                                     *)
(***************************************************************************)
Pending == [status |-> "pending", value |-> UNDEF]

Resolved(v) == [status |-> "resolved", value |-> v]

Rejected(m) == [status |-> "rejected", value |-> m]

NoFile == [contents |-> UNDEF, path |-> UNDEF]

Args(content, format, isOutput, outputPath, to) ==
  [content |-> content, format |-> format, isOutput |-> isOutput,
   outputPath |-> outputPath, to |-> to]

\* Inputs of the calls.
MaybeContents == Contents \cup {UNDEF}

MaybeFormats == Formats \cup {UNDEF}

MaybePaths == Paths \cup {UNDEF}

ConvertInputs == {"a.md", "a.pdf", "a.doi", RawJats, RawPlos, "plain text"}

OutputPaths == {UNDEF, "a.md", "a.pdf", "a.doi"}

FromFormats == {UNDEF, "jats", "plos", "text/markdown"}

ToFormats == {UNDEF, "md", "plos", "foo", "application/pdf"}

\* The codec modules that may fail to load.
Unreliable == {"http", "jats"}

\* match(content, format, isOutput) called directly.
CallMatch(content, format, isOutput) ==
  /\ pc = "idle"
  /\ api' = "match"
  /\ args' = Args(content, format, isOutput, UNDEF, UNDEF)
  /\ pc' = "match"
  /\ startMatch(content, format, isOutput)
  /\ UNCHANGED <<result, events, node, outputFile>>
  /\ UNCHANGED <<others, envVars, effectVars>>

\* handled(content, format), lines 185-190.
CallHandled(content, format) ==
  /\ pc = "idle"
  /\ api' = "handled"
  /\ args' = Args(content, format, FALSE, UNDEF, UNDEF)
  /\ pc' = "match"
  /\ startMatch(content, format, FALSE)
  /\ UNCHANGED <<result, events, node, outputFile>>
  /\ UNCHANGED <<others, envVars, effectVars>>

\* A variant of handled that does not tell a failure from a codec.
handledAlwaysTrue(settled) == "true"

\* Lines 191-194: what handled returns once match settled.
handledValue(settled) == IF settled = "return" THEN "true" ELSE "false"

\* decode(file, content, format), lines 204-209.
CallDecode(content, format) ==
  /\ pc = "idle"
  /\ api' = "decode"
  /\ args' = Args(content, format, FALSE, UNDEF, UNDEF)
  /\ pc' = "decodeMatch"
  /\ events' = Append(events, "decode:start")
  /\ startMatch(content, format, FALSE)
  /\ UNCHANGED <<result, node, outputFile>>
  /\ UNCHANGED <<others, envVars, effectVars>>

\* encode(node, {filePath, format}) called directly.
CallEncode(filePath, format) ==
  /\ pc = "idle"
  /\ api' = "encode"
  /\ args' = Args(UNDEF, UNDEF, TRUE, filePath, format)
  /\ pc' = "encode"
  /\ node' = "node:arg"
  /\ UNCHANGED <<result, events, outputFile>>
  /\ UNCHANGED <<others, envVars, effectVars, matchVars>>

\* convert(input, outputPath, {to, from}), lines 315-321.
CallConvert(input, outputPath, to, from) ==
  /\ pc = "idle"
  /\ api' = "convert"
  /\ args' = Args(input, from, FALSE, outputPath, to)
  /\ pc' = "decodeMatch"
  /\ events' = Append(events, "decode:start")
  /\ startMatch(input, from, FALSE)
  /\ UNCHANGED <<result, node, outputFile>>
  /\ UNCHANGED <<others, envVars, effectVars>>

\* A variant of the check that looks at filePath alone.
missingFilePath(filePath, format) == ~Truthy(filePath)

\* Line 228: the options encode refuses.
missingOptions(filePath, format) == ~(Truthy(filePath) \/ Truthy(format))

\* encode, lines 227-233: the check of the options, then the call of match.
EncodeEntry ==
  /\ pc = "encode"
  /\ events' = Append(events, "encode:start")
  /\ IF missingOptions(args.outputPath, args.to)
     THEN /\ result' =
               Rejected("At least one of \"filePath\" or \"format\" option must be provided")
          /\ pc' = "done"
          /\ UNCHANGED matchVars
     ELSE /\ pc' = "encodeMatch"
          /\ startMatch(args.outputPath, args.to, TRUE)
          /\ UNCHANGED result
  /\ UNCHANGED <<api, args, node, outputFile>>
  /\ UNCHANGED <<others, envVars, effectVars>>

\* match returns its codec to the caller (lines 142, 156-168).
MatchReturn ==
  /\ mpc = "return"
  /\ mpc' = "idle"
  /\ CASE api = "match" ->
            /\ result' = Resolved(codec.name)
            /\ pc' = "done"
       [] api = "handled" ->
            /\ result' = Resolved(handledValue(mpc))
            /\ pc' = "done"
       [] OTHER ->
            /\ result' = result
            /\ pc' = IF pc = "decodeMatch" THEN "codecDecode" ELSE "codecEncode"
  /\ UNCHANGED <<mContent, mFormat, mIsOutput, fileName, extName, mediaType,
                 idx, codec, imports, tested, matchedBy, message>>
  /\ UNCHANGED <<api, args, events, node, outputFile>>
  /\ UNCHANGED <<others, envVars, effectVars>>

\* match throws (lines 172-176); no caller but handled catches it.
MatchThrow ==
  /\ mpc = "throw"
  /\ mpc' = "idle"
  /\ message' = noCodecMessage(mContent, mFormat)
  /\ result' = IF api = "handled"
               THEN Resolved(handledValue(mpc))
               ELSE Rejected(noCodecMessage(mContent, mFormat))
  /\ pc' = "done"
  /\ UNCHANGED <<mContent, mFormat, mIsOutput, fileName, extName, mediaType,
                 idx, codec, imports, tested, matchedBy>>
  /\ UNCHANGED <<api, args, events, node, outputFile>>
  /\ UNCHANGED <<others, envVars, effectVars>>

\* decode, line 210: codec.decode(file).  convert goes on to encode
\* (line 323) once it resolved.
CodecDecode ==
  /\ pc = "codecDecode"
  /\ LET r == codecDecode(codec.name, args.content)
     IN  /\ applyEffects(r)
         /\ IF r.ok
            THEN /\ events' = Append(events, "decode:end")
                 /\ node' = r.value
                 /\ IF api = "decode"
                    THEN result' = Resolved(r.value) /\ pc' = "done"
                    ELSE result' = result /\ pc' = "encode"
            ELSE /\ result' = Rejected(r.value)
                 /\ pc' = "done"
                 /\ UNCHANGED <<events, node>>
  /\ UNCHANGED <<api, args, outputFile>>
  /\ UNCHANGED <<others, envVars, matchVars>>

\* encode, line 234: codec.encode(node, options).
CodecEncode ==
  /\ pc = "codecEncode"
  /\ LET r == codecEncode(codec.name, args.outputPath, mdEmpty)
     IN  /\ applyEffects(r)
         /\ IF r.ok
            THEN /\ events' = Append(events, "encode:end")
                 /\ outputFile' = [contents |-> r.value, path |-> UNDEF]
                 /\ IF api = "encode"
                    THEN result' = Resolved(r.value) /\ pc' = "done"
                    ELSE result' = result /\ pc' = "write"
            ELSE /\ result' = Rejected(r.value)
                 /\ pc' = "done"
                 /\ UNCHANGED <<events, outputFile>>
  /\ UNCHANGED <<api, args, node>>
  /\ UNCHANGED <<others, envVars, matchVars>>

\* A variant of the end of convert that writes without looking at outputPath.
ConvertWriteUnguarded ==
  /\ pc = "write"
  /\ written' = Append(written, <<args.outputPath, "vfile.write">>)
  /\ events' = Append(events, "write")
  /\ result' = Resolved(IF Truthy(outputFile.contents)
                        THEN outputFile.contents
                        ELSE outputFile.path)
  /\ pc' = "done"
  /\ UNCHANGED <<api, args, node, outputFile, launched, fetched>>
  /\ UNCHANGED <<others, envVars, matchVars>>

\* convert, lines 328-329: the write to outputPath and the value returned.
ConvertWrite ==
  /\ pc = "write"
  /\ IF Truthy(args.outputPath)
     THEN /\ written' = Append(written, <<args.outputPath, "vfile.write">>)
          /\ events' = Append(events, "write")
     ELSE UNCHANGED <<written, events>>
  /\ result' = Resolved(IF Truthy(outputFile.contents)
                        THEN outputFile.contents
                        ELSE outputFile.path)
  /\ pc' = "done"
  /\ UNCHANGED <<api, args, node, outputFile, launched, fetched>>
  /\ UNCHANGED <<others, envVars, matchVars>>

(***************************************************************************)
(* The shared browser (util/puppeteer.ts)                                  *)
(*                                                                         *)
(* Callers are the asynchronous calls of startup() and shutdown() that the *)
(* event loop interleaves at their awaits.  lock.acquire('browser', fn)    *)
(* runs fn at once when no function holds the key and queues it otherwise; *)
(* when fn settles the lock runs the function at the head of its queue.    *)
(***************************************************************************)

\* Number of concurrent callers, and of calls each makes.
NumCallers == 2

MaxCalls == 2

Callers == 1..NumCallers

\* The positions inside the functions handed to lock.acquire.
Critical == {"startupCheck", "launching", "shutdownCheck", "closing"}

\* A variant of the lock that lets every function in at once.
noLock(holder) == TRUE

\* lock.acquire (lines 59-60, 90-91): the key is free.
lockFree(holder) == holder = 0

\* The function handed to lock.acquire by op: page() calls startup() (line
\* 82).
entry(op) == IF op = "shutdown" THEN "shutdownCheck" ELSE "startupCheck"

\* Where caller p goes on when its function settled (how): page()
\* calls newPage on the browser startup() resolved with (line 83).
after(p, how) ==
  IF cop[p] = "page" /\ how = "resolved" THEN "newPage" ELSE "idle"

\* lock.acquire('browser', fn) by caller p for the function op.
acquire(p, op) ==
  /\ cop' = [cop EXCEPT ![p] = op]
  /\ calls' = [calls EXCEPT ![p] = @ + 1]
  /\ outcome' = [outcome EXCEPT ![p] = "pending"]
  /\ IF lockFree(lockHolder)
     THEN /\ lockHolder' = p
          /\ lockQueue' = lockQueue
          /\ cpc' = [cpc EXCEPT ![p] = entry(op)]
          /\ waited' = waited \ {p}
     ELSE /\ lockHolder' = lockHolder
          /\ lockQueue' = Append(lockQueue, p)
          /\ cpc' = [cpc EXCEPT ![p] = "queued"]
          /\ waited' = waited \cup {p}

\* The function of caller p settled (how): the lock runs the next one.
release(p, how) ==
  /\ outcome' = [outcome EXCEPT ![p] = how]
  /\ IF lockQueue = <<>>
     THEN /\ lockHolder' = 0
          /\ lockQueue' = lockQueue
          /\ cpc' = [cpc EXCEPT ![p] = after(p, how)]
     ELSE LET q == Head(lockQueue)
          IN  /\ lockHolder' = q
              /\ lockQueue' = Tail(lockQueue)
              /\ cpc' = [cpc EXCEPT ![p] = after(p, how),
                                    ![q] = entry(cop[q])]

\* No continuation of page() is waiting to run: the event loop runs the
\* continuations of settled promises before it delivers the completion of
\* a launch or of a close.
quiet == \A p \in Callers : cpc[p] # "newPage"

\* startup() is called (lines 58-60).
CallStartup(p) ==
  /\ cpc[p] = "idle"
  /\ calls[p] < MaxCalls
  /\ acquire(p, "startup")
  /\ UNCHANGED <<browser, got, launchLog, closes, live, handed>>
  /\ UNCHANGED notBrowser

\* shutdown() is called (lines 89-91).
CallShutdown(p) ==
  /\ cpc[p] = "idle"
  /\ calls[p] < MaxCalls
  /\ acquire(p, "shutdown")
  /\ UNCHANGED <<browser, got, launchLog, closes, live, handed>>
  /\ UNCHANGED notBrowser

\* page() is called (lines 81-82): it calls startup().
CallPage(p) ==
  /\ cpc[p] = "idle"
  /\ calls[p] < MaxCalls
  /\ acquire(p, "page")
  /\ UNCHANGED <<browser, got, launchLog, closes, live, handed>>
  /\ UNCHANGED notBrowser

\* Line 83: page() goes on after `await startup()` and calls newPage on the
\* browser it was given.
NewPage(p) ==
  /\ cpc[p] = "newPage"
  /\ cpc' = [cpc EXCEPT ![p] = "idle"]
  /\ UNCHANGED <<browser, lockHolder, lockQueue, cop, calls, got, waited,
                 launchLog, closes, live, handed, outcome>>
  /\ UNCHANGED notBrowser

\* Lines 62-64 and 73: the test of `browser`; launch starts, or the
\* browser there is is returned.
StartupCheck(p) ==
  /\ cpc[p] = "startupCheck"
  /\ IF browser = 0
     THEN /\ cpc' = [cpc EXCEPT ![p] = "launching"]
          /\ UNCHANGED <<lockHolder, lockQueue, got, handed, outcome>>
     ELSE /\ got' = [got EXCEPT ![p] = browser]
          /\ handed' = handed \cup {<<closes, browser>>}
          /\ release(p, "resolved")
  /\ UNCHANGED <<browser, cop, calls, waited, launchLog, closes, live>>
  /\ UNCHANGED notBrowser

\* Lines 64-73: puppeteer.launch resolved; the new browser is stored and
\* returned.
LaunchDone(p) ==
  /\ cpc[p] = "launching"
  /\ quiet
  /\ LET b == Len(launchLog) + 1
     IN  /\ browser' = b
         /\ launchLog' = Append(launchLog, closes)
         /\ live' = live \cup {b}
         /\ got' = [got EXCEPT ![p] = b]
         /\ handed' = handed \cup {<<closes, b>>}
  /\ release(p, "resolved")
  /\ UNCHANGED <<cop, calls, waited, closes>>
  /\ UNCHANGED notBrowser

\* Line 64: puppeteer.launch rejected; startup rejects, `browser` stays
\* undefined.
LaunchFailed(p) ==
  /\ cpc[p] = "launching"
  /\ quiet
  /\ release(p, "rejected")
  /\ UNCHANGED <<browser, cop, calls, got, waited, launchLog, closes, live,
                 handed>>
  /\ UNCHANGED notBrowser

\* Lines 93-95: the test of `browser`; close starts, or there is nothing
\* to close.
ShutdownCheck(p) ==
  /\ cpc[p] = "shutdownCheck"
  /\ IF browser # 0
     THEN /\ cpc' = [cpc EXCEPT ![p] = "closing"]
          /\ UNCHANGED <<lockHolder, lockQueue, outcome>>
     ELSE release(p, "resolved")
  /\ UNCHANGED <<browser, cop, calls, got, waited, launchLog, closes, live,
                 handed>>
  /\ UNCHANGED notBrowser

\* Lines 95-97: browser.close() resolved; `browser` is undefined again.
CloseDone(p) ==
  /\ cpc[p] = "closing"
  /\ quiet
  /\ live' = live \ {browser}
  /\ closes' = closes + 1
  /\ browser' = 0
  /\ release(p, "resolved")
  /\ UNCHANGED <<cop, calls, got, waited, launchLog, handed>>
  /\ UNCHANGED notBrowser

\* Line 95: browser.close() rejected; shutdown rejects and `browser` keeps
\* the handle.
CloseFailed(p) ==
  /\ cpc[p] = "closing"
  /\ quiet
  /\ release(p, "rejected")
  /\ UNCHANGED <<browser, cop, calls, got, waited, launchLog, closes, live,
                 handed>>
  /\ UNCHANGED notBrowser

(***************************************************************************)
(* The JATS encoder's citations (codecs/jats)                              *)
(*                                                                         *)
(* encodeArticle encodes article.content, then article.references, with    *)
(* one EncodeState.  The article is given node by node: the nodes and the  *)
(* references encoded so far are the article encoded.                      *)
(***************************************************************************)

\* Number of nodes with a Cite in article.content, and of references.
MaxCites == 2

MaxRefs == 2

\* The ids of references.
Rids == {"bib1", "bib2"}

\* Cite targets.
CiteTargets == {"bib1", "#bib1", "bib2"}

\* The nodes of article.content: a Paragraph holding a Cite, a Table whose
\* title holds a Cite, a Figure whose content holds a Cite.
NodeTypes == {"Paragraph", "Table", "Figure"}

Person(name) == [type |-> "Person", familyNames |-> <<name>>]

Organization == [type |-> "Organization", familyNames |-> <<>>]

\* The authors of a reference; <<>> is a reference without authors.
AuthorLists ==
  { <<>>,
    <<Person("Smith")>>,
    <<Person("Smith"), Person("Jones")>>,
    <<Person("Smith"), Person("Jones"), Person("Lee")>>,
    <<Organization>> }

\* datePublished as its fields between dashes; <<>> is undefined.
Dates == {<<>>, <<"1990", "05">>}

\* The entries of article.references: works and a string.
Works ==
  [kind : {"CreativeWork"}, id : Rids, authors : AuthorLists,
   datePublished : Dates]
  \cup {[kind |-> "string", id |-> UNDEF, authors |-> <<>>,
         datePublished |-> <<>>]}

\* initialEncodeState (lines 230-234).
initialEncodeState ==
  [tables |-> 0,
   citations |-> [r \in Rids |-> UNDEF],
   references |-> [r \in Rids |-> UNDEF]]

\* An <xref rid ref-type="bibr"> element with its children.
Xref(rid, elements) == [rid |-> rid, elements |-> elements]

startsWithHash(target) == \E r \in Rids : target = "#" \o r

substring1(target) == CHOOSE r \in Rids : target = "#" \o r

RECURSIVE join(_)
\* familyNames.join(' ')
join(names) ==
  IF names = <<>> THEN ""
  ELSE IF Len(names) = 1 THEN names[1]
  ELSE names[1] \o " " \o join(Tail(names))

isPerson(a) == a.type = "Person"

\* encodeCitationText (lines 1026-1059).
encodeCitationText(work) ==
  LET people == SelectSeq(work.authors, isPerson)
      names ==
        IF Len(work.authors) > 0 /\ Len(people) > 0
        THEN join(people[1].familyNames)
             \o (IF Len(people) = 2
                 THEN "and " \o join(people[2].familyNames)
                 ELSE IF Len(people) > 2 THEN " et al." ELSE "")
        ELSE ""
      year ==
        IF work.datePublished # <<>>
        THEN ", " \o work.datePublished[1]
        ELSE ""
  IN  names \o year

\* populateBibrContent (lines 1465-1479): the elements after it ran for
\* rid with the state st.
populateBibrContent(rid, st, xs) ==
  IF st.citations[rid] = UNDEF \/ st.references[rid] = UNDEF
  THEN xs
  ELSE [k \in DOMAIN xs |->
          IF /\ \E i \in DOMAIN st.citations[rid] : st.citations[rid][i] = k
             /\ xs[k].elements = <<>>
          THEN Xref(xs[k].rid, <<st.references[rid]>>)
          ELSE xs[k]]

\* encodeCite (lines 1443-1459): the state and the elements after it.
encodeCite(target, st, xs) ==
  LET rid == IF startsWithHash(target) THEN substring1(target) ELSE target
      created == Append(xs, Xref(rid, <<>>))
      listed == IF st.citations[rid] = UNDEF THEN <<>> ELSE st.citations[rid]
      st1 == [st EXCEPT !.citations[rid] = Append(listed, Len(created))]
  IN  [state |-> st1, xrefs |-> populateBibrContent(rid, st1, created)]

\* encodeReference (line 939): the registration is under `authors?.length`.
registers(work) == Len(work.authors) > 0

\* encodeReference (lines 924-954): the state and the elements after it.
encodeReference(work, st, xs) ==
  IF work.kind = "string"
  THEN [state |-> st, xrefs |-> xs]
  ELSE LET rid == work.id
       IN  IF registers(work) /\ Truthy(rid) /\ st.references[rid] = UNDEF
           THEN LET st1 == [st EXCEPT !.references[rid] =
                                         encodeCitationText(work)]
                IN  [state |-> st1,
                     xrefs |-> populateBibrContent(rid, st1, xs)]
           ELSE [state |-> st, xrefs |-> xs]

\* encodeNode (lines 1149-1195) of a node of article.content holding a
\* Cite: encodeParagraph passes the state on; encodeTable (lines 1581-1605)
\* counts the table and encodes its title with the default state of
\* encodeNodes (lines 1241-1244), as encodeFigure (line 1701) its content.
encodeNode(type, target, st, xs) ==
  IF type = "Paragraph"
  THEN encodeCite(target, st, xs)
  ELSE LET counted == IF type = "Table"
                      THEN [st EXCEPT !.tables = @ + 1]
                      ELSE st
       IN  [state |-> counted,
            xrefs |-> encodeCite(target, initialEncodeState, xs).xrefs]

\* Number of encodeArticle calls.
MaxArticles == 2

\* encodeArticle keeping the state of the call before it.
stateOfCallBefore(previous) == previous

\* The state encodeArticle starts with (line 291); previous is the state of
\* the call before it.
stateOfCall(previous) == initialEncodeState

\* encodeArticle is called (lines 271-291).
EncodeArticle ==
  /\ stage = "idle"
  /\ stage' = "body"
  /\ state' = stateOfCall(state)
  /\ UNCHANGED <<xrefs, references, bodyNodes, earlier>>
  /\ UNCHANGED notJats

\* The tables a call counted and the rids it listed citations and
\* references for.
counted(st) ==
  [tables |-> st.tables,
   citations |-> {r \in Rids : st.citations[r] # UNDEF},
   references |-> {r \in Rids : st.references[r] # UNDEF}]

\* encodeArticle is called for another article after it returned for one.
EncodeNextArticle ==
  /\ stage = "done"
  /\ Len(earlier) < MaxArticles - 1
  /\ stage' = "body"
  /\ state' = stateOfCall(state)
  /\ xrefs' = <<>>
  /\ references' = <<>>
  /\ bodyNodes' = <<>>
  /\ earlier' = Append(earlier, counted(state))
  /\ UNCHANGED notJats

\* encodeBody (line 292): the next node of article.content.
EncodeBodyNode(type, target) ==
  /\ stage = "body"
  /\ Len(xrefs) < MaxCites
  /\ LET r == encodeNode(type, target, state, xrefs)
     IN  /\ state' = r.state
         /\ xrefs' = r.xrefs
  /\ bodyNodes' = Append(bodyNodes, [type |-> type, target |-> target])
  /\ UNCHANGED <<stage, references, earlier>>
  /\ UNCHANGED notJats

\* encodeBody returned; encodeReferences (lines 856-869) starts.
EncodeBodyDone ==
  /\ stage = "body"
  /\ stage' = "back"
  /\ UNCHANGED <<state, xrefs, references, bodyNodes, earlier>>
  /\ UNCHANGED notJats

\* encodeReferences (line 866): the next entry of article.references.
EncodeReference(work) ==
  /\ stage = "back"
  /\ Len(references) < MaxRefs
  /\ LET r == encodeReference(work, state, xrefs)
     IN  /\ state' = r.state
         /\ xrefs' = r.xrefs
  /\ references' = Append(references, work)
  /\ UNCHANGED <<stage, bodyNodes, earlier>>
  /\ UNCHANGED notJats

\* encodeArticle returns the <article> (lines 296-305).
EncodeArticleDone ==
  /\ stage = "back"
  /\ stage' = "done"
  /\ UNCHANGED <<state, xrefs, references, bodyNodes, earlier>>
  /\ UNCHANGED notJats

(***************************************************************************)
(* The Markdown codec (codecs/md)                                          *)
(*                                                                         *)
(* Stencila nodes and MDAST nodes are records with a `type`.  A Text node  *)
(* (a string) is Text(value) and a boolean is Boolean(b), so that a        *)
(* decoded string "true" differs from the decoded boolean.                 *)
(***************************************************************************)

\* No node: `undefined`.
NoNode == [type |-> "undefined"]

Text(value) == [type |-> "Text", value |-> value]

Boolean(b) == [type |-> "Boolean", bool |-> b]

Emphasis(content) == [type |-> "Emphasis", content |-> content]

Strong(content) == [type |-> "Strong", content |-> content]

Include(source) == [type |-> "Include", source |-> source]

Paragraph(content) == [type |-> "Paragraph", content |-> content]

Heading(depth, content) ==
  [type |-> "Heading", depth |-> depth, content |-> content]

QuoteBlock(content) == [type |-> "QuoteBlock", content |-> content]

CodeBlock(text, programmingLanguage) ==
  [type |-> "CodeBlock", text |-> text,
   programmingLanguage |-> programmingLanguage]

ThematicBreak == [type |-> "ThematicBreak"]

ListItem(content) == [type |-> "ListItem", content |-> content]

List(order, items) == [type |-> "List", order |-> order, items |-> items]

\* outputs is <<>> for a chunk whose outputs are undefined.
CodeChunk(text, programmingLanguage, outputs) ==
  [type |-> "CodeChunk", text |-> text,
   programmingLanguage |-> programmingLanguage, outputs |-> outputs]

Figure(content, caption) ==
  [type |-> "Figure", content |-> content, caption |-> caption]

\* An array of nodes (an output of a CodeChunk, a title of inline nodes).
Array(items) == [type |-> "Array", items |-> items]

\* title is NoNode, a Text or an Array of inline nodes; keywords stands for
\* the other top-level properties and is UNDEF for an Article without.
Article(title, keywords, content) ==
  [type |-> "Article", title |-> title, keywords |-> keywords,
   content |-> content]

\* isBlockContent and isInlineContent of @stencila/schema, on the nodes
\* above.
isBlockContent(n) ==
  n.type \in {"Paragraph", "Heading", "QuoteBlock", "CodeBlock", "CodeChunk",
              "ThematicBreak", "List", "Include", "Figure"}

isInlineContent(n) == n.type \in {"Text", "Boolean", "Emphasis", "Strong"}

\* whiteSpaceRegEx (line 105) replaced by '$1 ': new lines and the white
\* space after them become one space.
collapse(value) == IF value = "a\n b" THEN "a b" ELSE value

\* String.prototype.trim() leaves nothing.
isBlank(value) == value \in {"", " ", "\n"}

\* String.prototype.trimRight().
trimRight(value) == IF value = "x = 1 " THEN "x = 1" ELSE value

\* MDAST nodes.
mdText(value) == [type |-> "text", value |-> value]

mdHtml(value) == [type |-> "html", value |-> value]

\* An html node whose value spells a block extension, kept as its parts.
mdHtmlBlock(parts) == [type |-> "html", value |-> "", parts |-> parts]

mdParent(type, children) == [type |-> type, children |-> children]

mdHeading(depth, children) ==
  [type |-> "heading", depth |-> depth, children |-> children]

mdCode(lang, value) == [type |-> "code", lang |-> lang, value |-> value]

mdList(ordered, children) ==
  [type |-> "list", ordered |-> ordered, children |-> children]

mdYaml(frontmatter) == [type |-> "yaml", frontmatter |-> frontmatter]

mdThematicBreak == [type |-> "thematicBreak"]

\* An Extension node (lines 1411-1436); content is Markdown text or NoNode,
\* argument a string or UNDEF.
Extension(type, name, argument, content) ==
  [type |-> type, name |-> name, argument |-> argument, content |-> content]

\* Markdown text, as the blocks it spells; '' is the text of no blocks.
Markdown(blocks) == [type |-> "markdown", blocks |-> blocks]

\* mdastBlockContentTypes and mdastPhrasingContentTypes (lines 107-135).
isMdastBlockContent(n) ==
  n.type \in {"blockquote", "code", "heading", "html", "list", "paragraph",
              "table", "thematicBreak"}

isMdastPhrasingContent(n) ==
  n.type \in {"break", "delete", "emphasis", "footnote", "footnoteReference",
              "html", "image", "imageReference", "inlineCode", "link",
              "linkReference", "strong", "text"}

hasChildren(n) == "children" \in DOMAIN n

RECURSIVE filter(_)
\* unist-util-filter with the test of line 205: the tree without its
\* undefined nodes.
filter(n) ==
  IF hasChildren(n)
  THEN [n EXCEPT !.children =
          LET kept == SelectSeq(n.children, LAMBDA c : c # NoNode)
          IN  [i \in DOMAIN kept |-> filter(kept[i])]]
  ELSE n

\* The text stringifyExtensions (lines 1462-1484) spells for an extension:
\* `!name` for an inline one without content, argument and properties; the
\* parts of `name: argument`, `:::`, content, `:::` for a block one.
spell(ext) ==
  IF ext.type = "inline-extension"
  THEN "!" \o ext.name
  ELSE [name |-> ext.name, argument |-> ext.argument,
        content |-> IF ext.content = NoNode THEN Markdown(<<>>)
                    ELSE ext.content]

RECURSIVE stringifyExtensions(_)
\* stringifyExtensions (lines 1462-1484).
stringifyExtensions(n) ==
  IF n.type \in {"inline-extension", "block-extension"}
  THEN IF n.type = "inline-extension"
       THEN mdHtml(spell(n))
       ELSE mdHtmlBlock(spell(n))
  ELSE IF hasChildren(n)
       THEN [n EXCEPT !.children =
               [i \in DOMAIN n.children |->
                  stringifyExtensions(n.children[i])]]
       ELSE n

\* GENERIC_EXTENSIONS (lines 154-167).
GENERIC_EXTENSIONS ==
  {"quote", "expr", "chunk", "figure", "include", "null", "true", "false",
   "boolean", "number", "array", "object"}

\* Markdown text is kept as what it spells.  A block is a record with a
\* `block` field; the inline text of a block is a sequence of pieces, runs
\* of characters or marked-up pieces.
chars(value) == [piece |-> "chars", value |-> value]

marked(piece, pieces) == [piece |-> piece, pieces |-> pieces]

\* The piece `!name[content](argument)`; content is Markdown text.
extended(name, argument, content) ==
  [piece |-> "extension", name |-> name, argument |-> argument,
   content |-> content]

\* The comment remark-stringify writes between two adjacent lists of the
\* same kind.
ListBreak == [block |-> "html", value |-> "<!---->"]

RECURSIVE flatten(_)
flatten(seqs) ==
  IF seqs = <<>> THEN <<>> ELSE Head(seqs) \o flatten(Tail(seqs))

RECURSIVE stringifyInline(_)
\* remark-stringify on phrasing content: text and html as they are, an
\* empty text as nothing.
stringifyInline(children) ==
  flatten([i \in DOMAIN children |->
    LET c == children[i]
    IN  IF c.type \in {"text", "html"}
        THEN IF c.value = "" THEN <<>> ELSE <<chars(c.value)>>
        ELSE <<marked(c.type, stringifyInline(c.children))>>])

RECURSIVE stringifyBlock(_), stringifyBlocks(_)
\* remark-stringify on a block; phrasing content in the place of a block is
\* written as a paragraph of its own.
stringifyBlock(n) ==
  CASE n.type = "paragraph" ->
         [block |-> "paragraph", pieces |-> stringifyInline(n.children)]
    [] n.type = "heading" ->
         [block |-> "heading", depth |-> n.depth,
          pieces |-> stringifyInline(n.children)]
    [] n.type = "code" ->
         [block |-> "code", lang |-> n.lang, value |-> n.value]
    [] n.type = "thematicBreak" -> [block |-> "thematicBreak"]
    [] n.type = "blockquote" ->
         [block |-> "blockquote", blocks |-> stringifyBlocks(n.children)]
    [] n.type = "list" ->
         [block |-> "list", ordered |-> n.ordered,
          items |-> [i \in DOMAIN n.children |->
                       stringifyBlocks(n.children[i].children)]]
    [] n.type = "yaml" ->
         [block |-> "yaml", frontmatter |-> n.frontmatter]
    [] n.type = "html" /\ "parts" \in DOMAIN n ->
         [block |-> "extension", name |-> n.parts.name,
          argument |-> n.parts.argument, content |-> n.parts.content]
    [] OTHER ->
         [block |-> "paragraph", pieces |-> stringifyInline(<<n>>)]

stringifyBlocks(children) ==
  flatten([i \in DOMAIN children |->
    IF /\ i > 1
       /\ children[i].type = "list"
       /\ children[i - 1].type = "list"
       /\ children[i].ordered = children[i - 1].ordered
    THEN <<ListBreak, stringifyBlock(children[i])>>
    ELSE <<stringifyBlock(children[i])>>])

\* unified().use(stringifier).stringify(root) (lines 210-213).
remarkStringify(root) == Markdown(stringifyBlocks(root.children))

RECURSIVE compact(_)
\* mdast-util-compact (line 190): adjacent text nodes become one.
compact(children) ==
  IF Len(children) < 2 THEN children
  ELSE IF children[1].type = "text" /\ children[2].type = "text"
       THEN compact(<<mdText(children[1].value \o children[2].value)>>
                    \o SubSeq(children, 3, Len(children)))
       ELSE <<children[1]>> \o compact(Tail(children))

RECURSIVE parseInline(_)
\* remark-parse with remark-generic-extensions on the inline text of a
\* block: `!name` of a registered name is an inline extension.
parseInline(pieces) ==
  compact([i \in DOMAIN pieces |->
    LET p == pieces[i]
    IN  IF p.piece = "chars"
        THEN IF \E name \in GENERIC_EXTENSIONS : p.value = "!" \o name
             THEN Extension("inline-extension",
                            CHOOSE name \in GENERIC_EXTENSIONS :
                              p.value = "!" \o name,
                            UNDEF, NoNode)
             ELSE mdText(p.value)
        ELSE IF p.piece = "extension"
        THEN Extension("inline-extension", p.name, p.argument, p.content)
        ELSE mdParent(p.piece, parseInline(p.pieces))])

\* A paragraph of white space only is no block.
spellsNothing(b) ==
  /\ b.block = "paragraph"
  /\ \A i \in DOMAIN b.pieces :
       b.pieces[i].piece = "chars" /\ isBlank(b.pieces[i].value)

RECURSIVE parseBlock(_), parseBlocks(_)
\* remark-parse with remark-frontmatter and remark-generic-extensions on a
\* block.
parseBlock(b) ==
  CASE b.block = "paragraph" -> mdParent("paragraph", parseInline(b.pieces))
    [] b.block = "heading" -> mdHeading(b.depth, parseInline(b.pieces))
    [] b.block = "code" -> mdCode(b.lang, b.value)
    [] b.block = "thematicBreak" -> mdThematicBreak
    [] b.block = "blockquote" -> mdParent("blockquote", parseBlocks(b.blocks))
    [] b.block = "list" ->
         mdList(b.ordered,
                [i \in DOMAIN b.items |->
                   mdParent("listItem", parseBlocks(b.items[i]))])
    [] b.block = "yaml" -> mdYaml(b.frontmatter)
    [] b.block = "html" -> mdHtml(b.value)
    [] b.block = "extension" ->
         Extension("block-extension", b.name, b.argument, b.content)

parseBlocks(blocks) ==
  LET spelled == SelectSeq(blocks, LAMBDA b : ~spellsNothing(b))
  IN  [i \in DOMAIN spelled |-> parseBlock(spelled[i])]

\* unified()...parse(md) and compact(mdast, true) (lines 182-190).
remarkParse(md) == mdParent("root", parseBlocks(md.blocks))

\* encodeString (lines 1256-1261).
encodeString(value) == mdText(collapse(value))

\* A variant that writes every boolean as `!true`.
encodeBooleanTrue(value) ==
  Extension("inline-extension", "true", UNDEF, NoNode)

\* encodeBoolean (lines 1305-1307).
encodeBoolean(value) ==
  Extension("inline-extension", IF value THEN "true" ELSE "false", UNDEF,
            NoNode)

\* The test of encodeParagraph (lines 579-584): the paragraph is empty.
isEmptyParagraph(content) ==
  \/ Len(content) = 0
  \/ /\ Len(content) = 1
     /\ content[1].type = "Text"
     /\ isBlank(content[1].value)

\* The nodes encodeCodeChunk (lines 727-750) makes of a chunk.
chunkNodes(chunk) ==
  <<CodeBlock(chunk.text,
              IF chunk.programmingLanguage = UNDEF THEN "text"
              ELSE chunk.programmingLanguage)>>
  \o flatten([i \in DOMAIN chunk.outputs |->
       (IF i # 1 THEN <<ThematicBreak>> ELSE <<>>)
       \o (LET output == chunk.outputs[i]
           IN  IF /\ output.type = "Array"
                  /\ \A k \in DOMAIN output.items :
                       isBlockContent(output.items[k])
               THEN output.items
               ELSE <<output>>)])

RECURSIVE mdEncodeNode(_), mdEncodeListItem(_), encodeMarkdown(_)
\* encodeNode (lines 326-392) with the encoders it calls.
mdEncodeNode(n) ==
  CASE n.type = "Article" ->
         \* encodeArticle (lines 479-506)
         LET children == [i \in DOMAIN n.content |-> mdEncodeNode(n.content[i])]
             frontmatter == [title |-> n.title, keywords |-> n.keywords]
         IN  mdParent("root",
               IF n.title # NoNode \/ n.keywords # UNDEF
               THEN <<mdYaml(frontmatter)>> \o children
               ELSE children)
    [] n.type = "Include" ->
         \* encodeInclude (lines 526-535)
         Extension("block-extension", "include", n.source,
                   encodeMarkdown(Article(NoNode, UNDEF, <<>>)))
    [] n.type = "Heading" ->
         mdHeading(n.depth,
                   [i \in DOMAIN n.content |-> mdEncodeNode(n.content[i])])
    [] n.type = "Paragraph" ->
         \* encodeParagraph (lines 575-592)
         IF isEmptyParagraph(n.content)
         THEN NoNode
         ELSE mdParent("paragraph",
                [i \in DOMAIN n.content |-> mdEncodeNode(n.content[i])])
    [] n.type = "QuoteBlock" ->
         mdParent("blockquote",
                  [i \in DOMAIN n.content |-> mdEncodeNode(n.content[i])])
    [] n.type = "CodeBlock" ->
         mdCode(n.programmingLanguage, trimRight(n.text))
    [] n.type = "CodeChunk" ->
         \* encodeCodeChunk (lines 723-761)
         Extension("block-extension", "chunk", UNDEF,
                   encodeMarkdown(Article(NoNode, UNDEF, chunkNodes(n))))
    [] n.type = "Figure" ->
         \* encodeFigure (lines 794-805)
         Extension("block-extension", "figure", UNDEF,
                   encodeMarkdown(Article(NoNode, UNDEF,
                                          n.content \o n.caption)))
    [] n.type = "List" ->
         LET items == SelectSeq(n.items, LAMBDA x : x.type = "ListItem")
         IN  mdList(n.order = "ascending",
                    [i \in DOMAIN items |-> mdEncodeListItem(items[i])])
    [] n.type = "ListItem" -> mdEncodeListItem(n)
    [] n.type = "ThematicBreak" -> mdThematicBreak
    [] n.type = "Emphasis" ->
         mdParent("emphasis",
                  [i \in DOMAIN n.content |-> mdEncodeNode(n.content[i])])
    [] n.type = "Strong" ->
         mdParent("strong",
                  [i \in DOMAIN n.content |-> mdEncodeNode(n.content[i])])
    [] n.type = "Text" -> encodeString(n.value)
    [] n.type = "Boolean" -> encodeBoolean(n.bool)
    [] OTHER -> encodeString("")

\* encodeListItem (lines 833-849).
mdEncodeListItem(listItem) ==
  mdParent("listItem",
    [i \in DOMAIN listItem.content |->
       LET mdast == mdEncodeNode(listItem.content[i])
       IN  IF isMdastBlockContent(mdast) THEN mdast
           ELSE IF isMdastPhrasingContent(mdast)
                THEN mdParent("paragraph", <<mdast>>)
                ELSE mdParent("paragraph", <<>>)])

\* encodeMarkdown (lines 198-214); stringifyAttrs changes nothing in a tree
\* without data.hProperties.
encodeMarkdown(n) ==
  LET encoded == mdEncodeNode(n)
  IN  IF encoded = NoNode
      THEN Markdown(<<>>)
      ELSE remarkStringify(stringifyExtensions(filter(encoded)))

\* decodeText (lines 1249-1251).
decodeText(text) == Text(collapse(text.value))

\* The string that the content of an inline extension is.
contentString(content) == content.blocks[1].pieces[1].value

\* ext.argument ?? ext.content ?? default
argumentOrContent(ext, default) ==
  IF ext.argument # UNDEF THEN ext.argument
  ELSE IF ext.content # NoNode THEN contentString(ext.content)
  ELSE default

\* decodeBoolean (lines 1289-1300).
decodeBoolean(ext) ==
  CASE ext.name = "true" -> TRUE
    [] ext.name = "false" -> FALSE
    [] OTHER ->
         LET value == argumentOrContent(ext, "true")
         IN  value = "true" \/ value = "1"

Null == [type |-> "Null"]

Number(n) == [type |-> "Number", number |-> n]

\* An object with its entries in order.
Object(entries) == [type |-> "Object", entries |-> entries]

Quote(content, cite) == [type |-> "Quote", content |-> content, cite |-> cite]

MediaObject(contentUrl) ==
  [type |-> "MediaObject", contentUrl |-> contentUrl]

\* The error JSON5.parse throws.
SyntaxError == [type |-> "SyntaxError"]

\* The number that is not a number.
NaN == [type |-> "Number", nan |-> TRUE]

\* parseFloat, on the strings of the model.
parseFloat(string) ==
  CASE string = "0" -> Number(0)
    [] string = "1" -> Number(1)
    [] string = "2" -> Number(2)
    [] OTHER -> NaN

\* JSON5.parse, on the strings of the model: `{undefined}` has a key
\* without a value.
JSON5parse(string) ==
  CASE string = "[]" -> Array(<<>>)
    [] string = "[true]" -> Array(<<Boolean(TRUE)>>)
    [] string = "[false]" -> Array(<<Boolean(FALSE)>>)
    [] string = "[0]" -> Array(<<Number(0)>>)
    [] string = "[1]" -> Array(<<Number(1)>>)
    [] string = "[2]" -> Array(<<Number(2)>>)
    [] string = "{}" -> Object(<<>>)
    [] string = "{a:1}" -> Object(<<[key |-> "a", value |-> Number(1)]>>)
    [] string = "{a:2}" -> Object(<<[key |-> "a", value |-> Number(2)]>>)
    [] OTHER -> SyntaxError

\* decodeNull (lines 1266-1268).
decodeNull == Null

\* decodeNumber (lines 1319-1321).
decodeNumber(ext) == parseFloat(argumentOrContent(ext, "0"))

\* decodeArray (lines 1344-1348).
decodeArray(ext) == JSON5parse("[" \o argumentOrContent(ext, "") \o "]")

\* decodeObject (lines 1370-1382) of an extension without properties; the
\* template spells an argument and content that are undefined as
\* `undefined`.
decodeObject(ext) == JSON5parse("{" \o argumentOrContent(ext, UNDEF) \o "}")

\* decodeQuote (lines 1091-1100).
decodeQuote(ext) ==
  Quote(IF ext.content # NoNode /\ contentString(ext.content) # ""
        THEN <<Text(contentString(ext.content))>> ELSE <<>>,
        IF Truthy(ext.argument) THEN ext.argument ELSE UNDEF)

\* decodeHTML (lines 1495-1498) of an HTML fragment without a semantic
\* element: the empty string.
decodeHTML(html) == Text("")

\* The outputs decodeCodeChunk (lines 679-708) makes of the nodes after the
\* code: pushOutputs of each run of nodes between thematic breaks.
pushOutputs(outputNodes) ==
  IF Len(outputNodes) = 1
  THEN LET n == outputNodes[1]
       IN  IF n.type = "Paragraph" /\ Len(n.content) = 1
           THEN <<n.content[1]>>
           ELSE <<n>>
  ELSE <<Array(outputNodes)>>

RECURSIVE splitOutputs(_, _)
splitOutputs(nodes, outputNodes) ==
  IF nodes = <<>>
  THEN pushOutputs(outputNodes)
  ELSE IF Head(nodes).type = "ThematicBreak"
       THEN pushOutputs(outputNodes) \o splitOutputs(Tail(nodes), <<>>)
       ELSE splitOutputs(Tail(nodes), Append(outputNodes, Head(nodes)))

\* The title decodeArticle (lines 453-457) makes of a depth-1 heading.
headingTitle(content) ==
  IF Len(content) = 1 /\ content[1].type = "Text"
  THEN content[1]
  ELSE Array(content)

\* A variant of decodeArticle's test that takes the title of a depth-1
\* heading also when the front matter gave one.
takesTitleAlways(title, child) == child.type = "heading" /\ child.depth = 1

\* decodeArticle (lines 449-453): the heading is taken as the title.
takesTitle(title, child) ==
  title = NoNode /\ child.type = "heading" /\ child.depth = 1

RECURSIVE mdDecodeNode(_), decodeChildren(_, _, _, _), decodeMarkdown(_)
\* decodeNode (lines 238-324) of the Markdown codec with the decoders it
\* calls.
mdDecodeNode(n) ==
  CASE n.type = "heading" ->
         Heading(n.depth,
                 [i \in DOMAIN n.children |-> mdDecodeNode(n.children[i])])
    [] n.type = "paragraph" ->
         \* decodeParagraph (lines 562-567)
         Paragraph([i \in DOMAIN n.children |-> mdDecodeNode(n.children[i])])
    [] n.type = "blockquote" ->
         QuoteBlock([i \in DOMAIN n.children |-> mdDecodeNode(n.children[i])])
    [] n.type = "code" -> CodeBlock(n.value, n.lang)
    [] n.type = "list" ->
         List(IF n.ordered THEN "ascending" ELSE "unordered",
              SelectSeq([i \in DOMAIN n.children |->
                           mdDecodeNode(n.children[i])],
                        LAMBDA x : x.type = "ListItem"))
    [] n.type = "listItem" ->
         ListItem(SelectSeq([i \in DOMAIN n.children |->
                               mdDecodeNode(n.children[i])],
                            isBlockContent))
    [] n.type = "thematicBreak" -> ThematicBreak
    [] n.type = "emphasis" ->
         Emphasis([i \in DOMAIN n.children |-> mdDecodeNode(n.children[i])])
    [] n.type = "strong" ->
         Strong([i \in DOMAIN n.children |-> mdDecodeNode(n.children[i])])
    [] n.type = "text" -> decodeText(n)
    [] n.type \in {"inline-extension", "block-extension"} ->
         CASE n.name = "chunk" ->
                \* decodeCodeChunk (lines 662-718)
                IF n.content = NoNode
                THEN CodeChunk("", UNDEF, <<>>)
                ELSE LET nodes == decodeMarkdown(n.content).content
                     IN  IF nodes = <<>> \/ nodes[1].type # "CodeBlock"
                         THEN CodeChunk("", UNDEF, <<>>)
                         ELSE CodeChunk(nodes[1].text,
                                nodes[1].programmingLanguage,
                                IF Len(nodes) > 1
                                THEN splitOutputs(Tail(nodes), <<>>)
                                ELSE <<>>)
           [] n.name = "figure" ->
                \* decodeFigure (lines 770-783)
                IF n.content = NoNode
                THEN Figure(<<>>, <<>>)
                ELSE LET nodes == decodeMarkdown(n.content).content
                     IN  Figure(SubSeq(nodes, 1, 1),
                                SubSeq(nodes, 2, Len(nodes)))
           [] n.name = "include" ->
                \* decodeInclude (lines 511-521) of an extension whose
                \* content is empty
                Include(IF n.argument = UNDEF THEN "" ELSE n.argument)
           [] n.name = "quote" -> decodeQuote(n)
           [] n.name = "null" -> decodeNull
           [] n.name \in {"boolean", "true", "false"} ->
                Boolean(decodeBoolean(n))
           [] n.name = "number" -> decodeNumber(n)
           [] n.name = "array" -> decodeArray(n)
           [] n.name = "object" -> decodeObject(n)
           [] OTHER -> Text("")
    [] n.type = "html" -> decodeHTML(n)
    [] OTHER -> Text("")

\* The loop of decodeArticle (lines 443-460) from child k on: the title,
\* the front matter and the content.
decodeChildren(children, k, title, meta) ==
  IF k > Len(children)
  THEN [title |-> title, meta |-> meta, content |-> <<>>]
  ELSE LET child == children[k]
       IN  IF child.type = "yaml"
           THEN decodeChildren(children, k + 1,
                  IF child.frontmatter.title # NoNode
                  THEN child.frontmatter.title
                  ELSE title,
                  child.frontmatter)
           ELSE IF takesTitle(title, child)
                THEN decodeChildren(children, k + 1,
                       headingTitle([i \in DOMAIN child.children |->
                                       mdDecodeNode(child.children[i])]),
                       meta)
                ELSE LET rest == decodeChildren(children, k + 1, title, meta)
                     IN  [rest EXCEPT
                            !.content = <<mdDecodeNode(child)>> \o @]

\* No front matter.
NoMeta == [title |-> NoNode, keywords |-> UNDEF]

\* decodeArticle (lines 439-468): stencila.article({title, ...meta,
\* content}).
mdDecodeArticle(root) ==
  LET r == decodeChildren(root.children, 1, NoNode, NoMeta)
  IN  Article(IF r.meta.title # NoNode THEN r.meta.title ELSE r.title,
              r.meta.keywords, r.content)

\* decodeMarkdown (lines 177-193) of a standalone document; resolveReferences
\* and stringifyHTML change nothing in a tree without references and HTML
\* tags.
decodeMarkdown(md) == mdDecodeArticle(remarkParse(md))

RECURSIVE thrownIn(_)
\* A decoder called for the node or for a node inside it threw.
thrownIn(n) ==
  \/ n.type = "SyntaxError"
  \/ "title" \in DOMAIN n /\ thrownIn(n.title)
  \/ "content" \in DOMAIN n /\ \E i \in DOMAIN n.content : thrownIn(n.content[i])
  \/ "items" \in DOMAIN n /\ \E i \in DOMAIN n.items : thrownIn(n.items[i])

\* Number of nodes in the content of an Article, and of outputs of a
\* CodeChunk.
MaxContent == 2

MaxOutputs == 2

\* The sequences over S of length from..to.
SeqsOf(S, from, to) == UNION {[1..n -> S] : n \in from..to}

\* The contents of paragraphs: empty ones, text, adjacent texts, marks,
\* booleans, a text spelling an extension, a text with a new line.
ParagraphContents ==
  { <<>>,
    <<Text(" ")>>,
    <<Text("a")>>,
    <<Text("a"), Text("b")>>,
    <<Text("a\n b")>>,
    <<Text("!true")>>,
    <<Emphasis(<<Text("a")>>)>>,
    <<Text("a"), Strong(<<Text("b")>>)>>,
    <<Boolean(TRUE)>>,
    <<Boolean(FALSE)>>,
    <<Text("a"), Boolean(FALSE)>> }

HeadingDepths == {1, 2, 6}

\* The Markdown-native blocks.
PlainBlocks ==
  {Paragraph(c) : c \in ParagraphContents}
  \cup {Heading(d, <<Text("a")>>) : d \in HeadingDepths}
  \cup { CodeBlock("x = 1", "r"), CodeBlock("x = 1 ", "r"), ThematicBreak,
         QuoteBlock(<<Paragraph(<<Text("a")>>)>>),
         QuoteBlock(<<Paragraph(<<>>), Paragraph(<<Text("a")>>)>>),
         List("unordered", <<ListItem(<<Paragraph(<<Text("a")>>)>>)>>),
         List("unordered", <<ListItem(<<Paragraph(<<>>)>>)>>),
         List("ascending", <<ListItem(<<Paragraph(<<Text("a")>>)>>),
                             ListItem(<<Paragraph(<<Text("b")>>)>>)>>) }

\* The outputs of code chunks.
OutputNodes ==
  { Text("a"), Text(""), Boolean(TRUE), Paragraph(<<Text("a")>>),
    Paragraph(<<>>),
    Paragraph(<<Emphasis(<<Text("a")>>), Text("b")>>),
    Array(<<Paragraph(<<Text("a")>>), CodeBlock("x = 1", "r")>>) }

CodeChunks ==
  {CodeChunk("x = 1", "r", outputs) :
     outputs \in SeqsOf(OutputNodes, 0, MaxOutputs)}

Figures ==
  {Figure(<<CodeBlock("x = 1", "r")>>, <<Paragraph(c)>>) :
     c \in {<<>>, <<Text("a")>>}}

Titles == {NoNode, Text("T")}

Keywords == {UNDEF, "k"}

\* The Articles given to encodeMarkdown.
Articles ==
  {Article(t, k, c) :
     t \in Titles, k \in Keywords, c \in SeqsOf(PlainBlocks, 0, MaxContent)}
  \cup {Article(NoNode, UNDEF, <<c>>) : c \in CodeChunks \cup Figures}
  \cup {Article(NoNode, UNDEF,
                 <<Paragraph(<<Text("a"), MediaObject("a.mp4")>>),
                   MediaObject("b.mp4")>>)}

\* The strings in the brackets and parentheses of an inline extension.
ExtensionStrings == {"true", "false", "0", "1", "2", "a:1", "a:2", ""}

StringContent(string) ==
  Markdown(<<[block |-> "paragraph", pieces |-> <<chars(string)>>]>>)

\* `!name`, `!name(argument)`, `!name[content]`, `!name[content](argument)`
\* of the primitive extensions, with an argument and content the extension
\* can have.
ExtensionPieces ==
  {extended(name, argument, content) :
     name \in {"null", "boolean", "number", "array", "object", "quote"},
     argument \in {UNDEF} \cup ExtensionStrings,
     content \in {NoNode} \cup {StringContent(c) : c \in ExtensionStrings}}

\* Markdown texts given to decodeMarkdown: the primitive extensions,
\* `a !include b`, `!boolean`, a break and `!expr`, a paragraph and a
\* thematic break, a depth-1 heading after a paragraph and two of them.
MarkdownTexts ==
  {Markdown(<<[block |-> "paragraph", pieces |-> <<piece>>]>>) :
     piece \in ExtensionPieces}
  \cup
  { Markdown(<<[block |-> "paragraph",
                pieces |-> <<chars("a "), chars("!include"), chars(" b")>>]>>),
    Markdown(<<[block |-> "paragraph", pieces |-> <<chars("!boolean")>>]>>),
    Markdown(<<[block |-> "paragraph",
                pieces |-> <<chars("a"), marked("break", <<>>), chars("b"),
                             chars("!expr")>>]>>),
    Markdown(<<[block |-> "paragraph", pieces |-> <<chars("a")>>],
               [block |-> "thematicBreak"]>>),
    Markdown(<<[block |-> "paragraph", pieces |-> <<chars("a")>>],
               [block |-> "heading", depth |-> 1, pieces |-> <<chars("T")>>],
               [block |-> "paragraph", pieces |-> <<chars("b")>>]>>),
    Markdown(<<[block |-> "heading", depth |-> 1, pieces |-> <<chars("T")>>],
               [block |-> "heading", depth |-> 1, pieces |-> <<chars("U")>>],
               [block |-> "paragraph", pieces |-> <<chars("b")>>]>>) }

\* MdCodec.encode (lines 88-93) is called with an Article.
EncodeMarkdown ==
  /\ mdStage = "article"
  /\ mdString' = encodeMarkdown(mdArticle)
  /\ mdStage' = "encoded"
  /\ UNCHANGED <<mdArticle, mdDecoded>>
  /\ UNCHANGED notMd

\* MdCodec.decode (lines 76-80) is called with Markdown text.
\* It rejects with the error a decoder throws.
DecodeMarkdown ==
  /\ mdStage \in {"encoded", "text"}
  /\ mdDecoded' = IF thrownIn(decodeMarkdown(mdString)) THEN SyntaxError
                  ELSE decodeMarkdown(mdString)
  /\ mdStage' = IF thrownIn(decodeMarkdown(mdString)) THEN "rejected"
                ELSE IF mdStage = "encoded" THEN "roundtrip" ELSE "decoded"
  /\ UNCHANGED <<mdArticle, mdString>>
  /\ UNCHANGED notMd

(***************************************************************************)
(* The JATS codec's body (codecs/jats)                                     *)
(*                                                                         *)
(* An XML element is a record with its name, its attributes and its child  *)
(* nodes; a text node is a record with its text.  An attribute an element  *)
(* does not have is UNDEF.  Stencila nodes are the records of the Markdown *)
(* codec; a Table, an ImageObject, a Link and a Cite are added.            *)
(***************************************************************************)

AttributeNames == {"id", "rid", "ref-type", "xlink:href"}

NoAttributes == [a \in AttributeNames |-> UNDEF]

\* The attributes {id}, {rid, 'ref-type'} and {'xlink:href'}.
IdAttribute(id) == [NoAttributes EXCEPT !["id"] = id]

XrefAttributes(rid, refType) ==
  [NoAttributes EXCEPT !["rid"] = rid, !["ref-type"] = refType]

HrefAttribute(href) == [NoAttributes EXCEPT !["xlink:href"] = href]

xmlText(text) == [type |-> "text", text |-> text]

\* util/xml elem(name, attributes, ...children): the children that are
\* null or undefined are left out.
elem(name, attributes, children) ==
  [type |-> "element", name |-> name, attributes |-> attributes,
   elements |-> SelectSeq(children, LAMBDA c : c.type # "undefined")]

\* util/xml attr(elem, name): null (UNDEF) for an attribute that is absent.
attr(e, name) == e.attributes[name]

\* util/xml child(elem, names): the first child element with one of the
\* names, null (NoNode) without one.
child(e, names) ==
  LET found == SelectSeq(e.elements,
                         LAMBDA c : c.type = "element" /\ c.name \in names)
  IN  IF found = <<>> THEN NoNode ELSE found[1]

\* util/xml all(elem, names): the descendant elements with one of the
\* names, in document order.
RECURSIVE allOf(_, _, _)
allOf(elements, k, names) ==
  IF k > Len(elements) THEN <<>>
  ELSE LET c == elements[k]
       IN  IF c.type # "element" THEN allOf(elements, k + 1, names)
           ELSE (IF c.name \in names THEN <<c>> ELSE <<>>)
                \o allOf(c.elements, 1, names)
                \o allOf(elements, k + 1, names)

all(e, names) == allOf(e.elements, 1, names)

\* xml.dump then xml.load: adjacent text nodes become one text node and a
\* text node without text is none.
RECURSIVE serialized(_)
serialized(elements) ==
  IF elements = <<>> THEN <<>>
  ELSE LET c == elements[1]
           rest == serialized(Tail(elements))
       IN  IF c.type = "element"
             THEN <<[c EXCEPT !.elements = serialized(c.elements)]>> \o rest
           ELSE IF c.text = "" THEN rest
           ELSE IF rest # <<>> /\ rest[1].type = "text"
             THEN <<xmlText(c.text \o rest[1].text)>> \o Tail(rest)
           ELSE <<c>> \o rest

dump(doc) == [doc EXCEPT !.elements = serialized(doc.elements)]

load(jats) == jats

\* A Table without title; id is UNDEF for a Table without.
Table(id, rows) == [type |-> "Table", id |-> id, rows |-> rows]

TableRow(cells) == [type |-> "TableRow", cells |-> cells]

TableCell(content) == [type |-> "TableCell", content |-> content]

ImageObject(contentUrl, inline) ==
  [type |-> "ImageObject", contentUrl |-> contentUrl, inline |-> inline]

\* relation is UNDEF for a Link without.
Link(target, relation, content) ==
  [type |-> "Link", target |-> target, relation |-> relation,
   content |-> content]

Cite(target, content) ==
  [type |-> "Cite", target |-> target, content |-> content]

\* The Heading and the Figure that decoding makes carry an id; content and
\* caption are <<>> for a Figure whose content, caption is undefined, id is
\* UNDEF for a Figure without.
SectionHeading(depth, id, content) ==
  [type |-> "Heading", depth |-> depth, id |-> id, content |-> content]

Fig(id, content, caption) ==
  [type |-> "Figure", id |-> id, content |-> content, caption |-> caption]

\* isInlineContent of @stencila/schema, on the nodes of the JATS codec.
isInline(n) ==
  n.type \in {"Text", "Emphasis", "Strong", "Link", "Cite", "ImageObject"}

\* The number of Tables among nodes: what encoding them adds to
\* state.tables (encodeTable line 1582).
RECURSIVE tablesIn(_)
tablesIn(nodes) ==
  IF nodes = <<>> THEN 0
  ELSE (IF nodes[1].type = "Table" THEN 1 ELSE 0) + tablesIn(Tail(nodes))

RECURSIVE jatsEncodeNode(_, _)
RECURSIVE encodeNodesFrom(_, _, _)

\* encodeNodes (lines 1241-1252) with state.tables = tables.
encodeNodes(nodes, tables) == encodeNodesFrom(nodes, 1, tables)

encodeNodesFrom(nodes, k, tables) ==
  IF k > Len(nodes) THEN <<>>
  ELSE jatsEncodeNode(nodes[k], tables + tablesIn(SubSeq(nodes, 1, k - 1)))
       \o encodeNodesFrom(nodes, k + 1, tables)

encodeDefault(name, nodes, tables) ==
  elem(name, NoAttributes, encodeNodes(nodes, tables))

encodeHeading(n, tables) ==
  <<encodeDefault("title", n.content, tables)>>

encodeParagraph(n, tables) == <<encodeDefault("p", n.content, tables)>>

encodeMark(n, tables, name) ==
  <<elem(name, NoAttributes, encodeNodes(n.content, tables))>>

encodeMedia(media, elementName) ==
  <<elem(elementName, HrefAttribute(media.contentUrl), <<>>)>>

encodeTable(n, tables) ==
  LET attrs == IF Truthy(n.id) THEN IdAttribute(n.id) ELSE NoAttributes
      label == elem("label", NoAttributes,
                    <<xmlText("Table " \o ToString(tables + 1) \o ".")>>)
      caption == elem("caption", NoAttributes, <<NoNode>>)
      rows == [i \in DOMAIN n.rows |->
                 elem("tr", NoAttributes,
                      [j \in DOMAIN n.rows[i].cells |->
                         encodeDefault("tr", n.rows[i].cells[j].content,
                                       tables + 1)])]
      table == elem("table", NoAttributes,
                    <<elem("tbody", NoAttributes, rows)>>)
  IN  <<elem("table-wrap", attrs, <<label, caption, table>>)>>

\* encodeFigure never grouping the encoded content.
figureChildFirst(children) ==
  IF Len(children) = 0 THEN NoNode ELSE children[1]

\* The child of <fig> for the encoded content (lines 1708-1712).
figureChild(children) ==
  IF Len(children) = 0 THEN NoNode
  ELSE IF Len(children) = 1 THEN children[1]
  ELSE elem("alternatives", NoAttributes, children)

\* The Figures of the model have no label.
encodeFigure(figure, tables) ==
  LET children == encodeNodes(figure.content, 0)
  IN  <<elem("fig", NoAttributes,
             <<NoNode,
               IF figure.caption # <<>>
                 THEN elem("caption", NoAttributes,
                           encodeNodes(figure.caption, tables))
                 ELSE NoNode,
               figureChild(children)>>)>>

jatsEncodeNode(n, tables) ==
  CASE n.type = "Heading" -> encodeHeading(n, tables)
    [] n.type = "Paragraph" -> encodeParagraph(n, tables)
    [] n.type = "Table" -> encodeTable(n, tables)
    [] n.type = "Emphasis" -> encodeMark(n, tables, "italic")
    [] n.type = "Strong" -> encodeMark(n, tables, "bold")
    [] n.type = "Figure" -> encodeFigure(n, tables)
    [] n.type = "ImageObject" ->
         encodeMedia(n, IF n.inline THEN "inline-graphic" ELSE "graphic")
    [] n.type = "Text" -> <<xmlText(n.value)>>
    [] OTHER -> <<>>

\* encodeBody: the loop of lines 1083-1094 from the k-th n on, sections
\* being the <sec> elements made so far.
RECURSIVE encodeBodyFrom(_, _, _)
encodeBodyFrom(nodes, k, sections) ==
  IF k > Len(nodes) THEN sections
  ELSE LET opened == IF nodes[k].type = "Heading" \/ sections = <<>>
                       THEN Append(sections, elem("sec", NoAttributes, <<>>))
                       ELSE sections
           el == jatsEncodeNode(nodes[k], tablesIn(SubSeq(nodes, 1, k - 1)))
       IN  encodeBodyFrom(nodes, k + 1,
                          [opened EXCEPT ![Len(opened)].elements = @ \o el])

encodeBody(nodes) == elem("body", NoAttributes, encodeBodyFrom(nodes, 1, <<>>))

\* encodeArticle, of the content of an Article without references.
jatsEncodeArticle(article) ==
  elem("article", NoAttributes,
       <<encodeBody(article.content), elem("back", NoAttributes, <<>>)>>)

\* The characters of the ids of the model.
charsOf(id) ==
  CASE id = "" -> <<>>
    [] id = "s1" -> <<"s", "1">>
    [] id = "s1.2" -> <<"s", "1", ".", "2">>
    [] id = "s1-2" -> <<"s", "1", "-", "2">>
    [] id = "b.1.x" -> <<"b", ".", "1", ".", "x">>
    [] id = "b-1-x" -> <<"b", "-", "1", "-", "x">>

RECURSIVE concat(_)
concat(strings) ==
  IF strings = <<>> THEN "" ELSE Head(strings) \o concat(Tail(strings))

\* id.replace(/\./g, '-')
replaceDots(id) ==
  concat([i \in DOMAIN charsOf(id) |->
            IF charsOf(id)[i] = "." THEN "-" ELSE charsOf(id)[i]])

decodeInternalId(id) == IF id = UNDEF THEN "" ELSE replaceDots(id)

initialDecodeState == [sectionId |-> "", sectionDepth |-> 0]

\* util/xml first(elem, names): the first descendant element with one of
\* the names.
first(e, names) == IF all(e, names) = <<>> THEN NoNode ELSE all(e, names)[1]

RECURSIVE decodeElement(_, _)
RECURSIVE decodeElementsFrom(_, _, _)

decodeElements(elems, st) == decodeElementsFrom(elems, 1, st)

decodeElementsFrom(elems, k, st) ==
  IF k > Len(elems) THEN <<>>
  ELSE decodeElement(elems[k], st) \o decodeElementsFrom(elems, k + 1, st)

\* A variant that drops the children of the element.
decodeDefaultNone(e, st) == <<>>

\* decodeDefault (lines 1211-1213).
decodeDefault(e, st) == decodeElements(e.elements, st)

decodeInlineContent(elems, st) ==
  SelectSeq(decodeElements(elems, st), isInline)

\* decodeSection handing its own state to the section's children.
decodeSectionFlat(e, st) == decodeDefault(e, st)

decodeSection(e, st) ==
  LET sectionId == IF attr(e, "id") = UNDEF THEN "" ELSE attr(e, "id")
  IN  decodeDefault(e, [sectionId |-> sectionId,
                        sectionDepth |-> st.sectionDepth + 1])

decodeHeading(e, st) ==
  <<SectionHeading(st.sectionDepth, st.sectionId,
                   decodeInlineContent(e.elements, st))>>

\* The loop of decodeParagraph (lines 1322-1335) from the k-th node on;
\* para is NoNode when undefined.
RECURSIVE breakApart(_, _, _, _)
breakApart(nodes, k, para, blocks) ==
  IF k > Len(nodes)
    THEN IF para.type # "undefined" THEN Append(blocks, para) ELSE blocks
  ELSE IF isInline(nodes[k])
    THEN breakApart(nodes, k + 1,
                    IF para.type = "undefined" THEN Paragraph(<<nodes[k]>>)
                    ELSE Paragraph(Append(para.content, nodes[k])),
                    blocks)
  ELSE breakApart(nodes, k + 1, NoNode,
                  Append(IF para.type # "undefined" THEN Append(blocks, para)
                         ELSE blocks,
                         nodes[k]))

decodeParagraph(e, st) ==
  breakApart(decodeElements(e.elements, st), 1, Paragraph(<<>>), <<>>)

decodeLink(e, st) ==
  <<Link("#" \o decodeInternalId(attr(e, "rid")), attr(e, "ref-type"),
         SelectSeq(decodeDefault(e, st), isInline))>>

decodeBibr(e, st) ==
  <<Cite(decodeInternalId(attr(e, "rid")),
         SelectSeq(decodeDefault(e, st), isInline))>>

decodeXRef(e, st) ==
  IF attr(e, "ref-type") = "bibr" THEN decodeBibr(e, st) ELSE decodeLink(e, st)

decodeMark(e, st, type) ==
  <<[type |-> type, content |-> decodeInlineContent(e.elements, st)]>>

decodeGraphic(e, inline) ==
  <<ImageObject(IF attr(e, "xlink:href") = UNDEF THEN ""
                ELSE attr(e, "xlink:href"),
                inline)>>

decodeTableWrap(e, st) ==
  LET id == attr(e, "id")
      rows == all(e, {"tr"})
      cellsOf(row) == all(row, {"td", "th"})
  IN  <<Table(IF Truthy(id) THEN id ELSE UNDEF,
              [i \in DOMAIN rows |->
                 TableRow([j \in DOMAIN cellsOf(rows[i]) |->
                   TableCell(decodeInlineContent(
                     cellsOf(rows[i])[j].elements, st))])])>>

\* The children of <fig> that decodeFigure takes as its content when there
\* is no <alternatives> (lines 1657-1674).
figureContentNames ==
  {"disp-formula", "disp-formula-group", "chem-struct-wrap", "disp-quote",
   "speech", "statement", "verse-group", "table-wrap", "p", "def-list",
   "list", "array", "code", "graphic", "media", "preformat"}

decodeFigure(e, st) ==
  LET caption == child(e, {"caption"})
      alternatives == child(e, {"alternatives"})
      item == child(e, figureContentNames)
      content == IF alternatives.type # "undefined"
                   THEN decodeDefault(alternatives, st)
                 ELSE IF item.type # "undefined" THEN decodeElement(item, st)
                 ELSE <<>>
  IN  <<Fig(attr(e, "id"),
            content,
            IF caption.type # "undefined" /\ caption.elements # <<>>
              THEN decodeElements(caption.elements, st)
              ELSE <<>>)>>

decodeElement(e, st) ==
  IF e.type = "text" THEN <<Text(e.text)>>
  ELSE CASE e.name = "sec" -> decodeSection(e, st)
         [] e.name = "title" -> decodeHeading(e, st)
         [] e.name = "p" -> decodeParagraph(e, st)
         [] e.name = "table-wrap" -> decodeTableWrap(e, st)
         [] e.name = "inline-graphic" -> decodeGraphic(e, TRUE)
         [] e.name = "graphic" -> decodeGraphic(e, FALSE)
         [] e.name = "xref" -> decodeXRef(e, st)
         [] e.name = "italic" -> decodeMark(e, st, "Emphasis")
         [] e.name = "bold" -> decodeMark(e, st, "Strong")
         [] e.name = "fig" -> decodeFigure(e, st)
         [] OTHER -> decodeDefault(e, st)

decodeBody(body, st) ==
  IF body.type = "undefined" THEN <<>> ELSE decodeDefault(body, st)

\* decodeReference, of the id of the work.
decodeReference(e, id) ==
  [type |-> "Article",
   id |-> IF Truthy(id) THEN decodeInternalId(id) ELSE UNDEF]

\* The <ref> elements with a citation, decoded.
decodeReferences(e) ==
  LET cited == SelectSeq(all(e, {"ref"}),
                 LAMBDA ref :
                   child(ref, {"element-citation", "mixed-citation"}).type
                     # "undefined")
  IN  [i \in DOMAIN cited |->
         decodeReference(child(cited[i],
                               {"element-citation", "mixed-citation"}),
                         attr(cited[i], "id"))]

\* references is <<>> for an Article without.
decodeBack(back) ==
  IF back.type = "undefined" \/ first(back, {"ref-list"}).type = "undefined"
    THEN <<>>
  ELSE decodeReferences(first(back, {"ref-list"}))

\* decodeArticle, of the content and the references of the Article.
jatsDecodeArticle(article) ==
  [type |-> "Article",
   content |-> decodeBody(child(article, {"body"}), initialDecodeState),
   references |-> decodeBack(child(article, {"back"}))]

\* Bounds of the JATS codec's inputs: the nodes of a body, the content
\* nodes of a Figure, the <sec> elements around a <title>.
MaxBody == 2

MaxFigureContent == 2

MaxSections == 2

\* The Headings, Paragraphs and Tables of a body.
BodyNodes ==
  {Heading(d, <<Text("a")>>) : d \in HeadingDepths}
  \cup {Paragraph(<<Text("a")>>),
        Paragraph(<<Text("a"), Emphasis(<<Text("b")>>)>>),
        Table(UNDEF, <<TableRow(<<TableCell(<<Text("a")>>)>>)>>),
        Table("s1", <<TableRow(<<TableCell(<<Text("a")>>),
                                 TableCell(<<Text("b")>>)>>),
                      TableRow(<<TableCell(<<>>),
                                 TableCell(<<Text("c")>>)>>)>>)}

\* The content nodes of a Figure: images, a paragraph, a table, a code
\* chunk.
FigureContents ==
  {ImageObject("a.png", FALSE), ImageObject("b.png", TRUE),
   Paragraph(<<Text("a")>>),
   Table(UNDEF, <<TableRow(<<TableCell(<<Text("a")>>)>>)>>),
   CodeChunk("plot(x)", "r", <<>>)}

JatsFigures ==
  {Figure(content, caption) :
     content \in SeqsOf(FigureContents, 0, MaxFigureContent),
     caption \in {<<>>, <<Paragraph(<<Text("c")>>)>>}}

\* The Articles given to encodeArticle.
JatsArticles ==
  {Article(NoNode, UNDEF, content) :
     content \in SeqsOf(BodyNodes, 1, MaxBody)
                 \cup {<<figure>> : figure \in JatsFigures}
                 \cup {<<Paragraph(<<Text("a")>>), figure>> :
                         figure \in JatsFigures}
                 \cup {<<CodeBlock("x = 1", "r"),
                         Paragraph(<<Text("a"), Boolean(TRUE)>>)>>}
                 \cup {<<table, Figure(<<table>>, <<>>)>> :
                         table \in {n \in BodyNodes : n.type = "Table"}}
                 \cup {<<Figure(<<table>>, <<>>), table>> :
                         table \in {n \in BodyNodes : n.type = "Table"}}}

\* The ids of the elements of a JATS document, and the rids of its <xref>s.
SectionIds == {UNDEF, "s1", "s1.2"}

XrefRids == {"s1.2", "b.1.x"}

XmlTitle == elem("title", NoAttributes, <<xmlText("a")>>)

Sec(id, children) ==
  elem("sec", IF id = UNDEF THEN NoAttributes ELSE IdAttribute(id), children)

\* The <sec> elements with depth - 1 <sec> elements around them: a title
\* alone, a title before a nested <sec>, a title after one.
RECURSIVE SecsAt(_)
SecsAt(depth) ==
  {Sec(id, children) :
     id \in SectionIds,
     children \in
       {<<XmlTitle>>}
       \cup (IF depth < MaxSections
               THEN UNION {{<<XmlTitle, s>>, <<s, XmlTitle>>} :
                             s \in SecsAt(depth + 1)}
               ELSE {})}

\* A <fig> holding a <graphic>.
XmlGraphicFig ==
  elem("fig", NoAttributes, <<elem("graphic", HrefAttribute("a.png"), <<>>)>>)

\* Blocks of a <sec>: a paragraph with an <xref>, paragraphs without
\* children and with figures among their children, an element without a
\* decoder, a figure, a table.
XmlBlocks ==
  {elem("p", NoAttributes,
        <<xmlText("a"),
          elem("xref", XrefAttributes(rid, refType), <<xmlText("b")>>)>>) :
     rid \in XrefRids, refType \in {"bibr", "sec"}}
  \cup {elem("p", NoAttributes, children) :
          children \in
            {<<>>,
             <<XmlGraphicFig, xmlText("a")>>,
             <<xmlText("a"), elem("italic", NoAttributes, <<xmlText("b")>>),
               XmlGraphicFig, xmlText("c"), XmlGraphicFig>>}}
  \cup {elem("boxed-text", NoAttributes,
             <<elem("p", NoAttributes,
                    <<xmlText("a"),
                      elem("named-content", NoAttributes,
                           <<xmlText("b"),
                             elem("italic", NoAttributes,
                                  <<xmlText("c")>>)>>)>>)>>)}
  \cup {elem("fig", IF id = UNDEF THEN NoAttributes ELSE IdAttribute(id),
             <<elem("graphic", HrefAttribute("a.png"), <<>>)>>) :
          id \in SectionIds}
  \cup {elem("table-wrap",
             IF id = UNDEF THEN NoAttributes ELSE IdAttribute(id),
             <<elem("table", NoAttributes,
                    <<elem("tr", NoAttributes,
                           <<elem("td", NoAttributes,
                                  <<xmlText("a")>>)>>)>>)>>) :
          id \in SectionIds}

XmlBodies ==
  {<<s>> : s \in SecsAt(1)}
  \cup {<<Sec(id, <<XmlTitle, block>>)>> :
          id \in SectionIds, block \in XmlBlocks}

XmlRef(id) ==
  elem("ref", IdAttribute(id),
       <<elem("element-citation", NoAttributes, <<>>)>>)

XmlBacks ==
  {<<>>}
  \cup {<<elem("ref-list", NoAttributes, <<XmlRef(id)>>)>> :
          id \in {"s1", "b.1.x"}}

\* The JATS documents given to decode.
JatsDocuments ==
  {elem("article", NoAttributes,
        <<elem("body", NoAttributes, body),
          elem("back", NoAttributes, back)>>) :
     body \in XmlBodies, back \in XmlBacks}

\* JatsCodec.encode (lines 104-108) is called with an Article.
EncodeJats ==
  /\ xmlStage = "article"
  /\ xmlDoc' = dump(jatsEncodeArticle(xmlBody))
  /\ xmlStage' = "encoded"
  /\ UNCHANGED <<xmlBody, xmlDecoded>>
  /\ UNCHANGED notXml

\* JatsCodec.decode (lines 91-97) is called with a JATS document.
DecodeJats ==
  /\ xmlStage \in {"encoded", "document"}
  /\ xmlDecoded' = jatsDecodeArticle(load(xmlDoc))
  /\ xmlStage' = IF xmlStage = "encoded" THEN "roundtrip" ELSE "decoded"
  /\ UNCHANGED <<xmlBody, xmlDoc>>
  /\ UNCHANGED notXml

(***************************************************************************)
(* The CLI (cli.ts)                                                        *)
(*                                                                         *)
(* The main function runs its command, a convert that may ask for pages of *)
(* the shared browser, and then shuts the browser down; the handler of     *)
(* util/puppeteer.ts shuts it down again before the process exits.         *)
(***************************************************************************)

\* The caller of the shared browser the CLI's own calls are made by.
CliCaller == 1

\* The commands given to the CLI.
Commands == {"convert", "compile"}

\* A variant of the main function without `finally`: an error leaves it.
finishedUncaught(threw) == IF threw THEN "exit" ELSE "finally"

\* Lines 166-183: try, catch and finally; where the main function goes on
\* when its command is over.
finished(threw) == "finally"

\* Lines 167-179: the command is a convert, or is unknown and ignored.
CliCommand(command) ==
  /\ cli.at = "start"
  /\ cli' = [cli EXCEPT !.at = IF command = "convert" THEN "convert"
                               ELSE finished(FALSE)]
  /\ UNCHANGED browserVars
  /\ UNCHANGED notCli

\* Line 168: the convert asks for a page of the shared browser (pdf.ts
\* line 48).
CliConvertPage(p) ==
  /\ cli.at = "convert"
  /\ CallPage(p)

\* Lines 168-181: the convert settled, its calls having settled; it
\* resolved or threw.
CliConvertSettled(threw) ==
  /\ cli.at = "convert"
  /\ \A p \in Callers : cpc[p] = "idle"
  /\ cli' = [cli EXCEPT !.at = finished(threw)]
  /\ UNCHANGED browserVars
  /\ UNCHANGED notCli

\* Line 183: `await puppeteer.shutdown()`.
CliFinally ==
  /\ cli.at = "finally"
  /\ acquire(CliCaller, "shutdown")
  /\ cli' = [cli EXCEPT !.at = "shutdown"]
  /\ UNCHANGED <<browser, got, launchLog, closes, live, handed>>
  /\ UNCHANGED notCli

\* Lines 183-185: shutdown() settled and the main function is over.
CliShutdownSettled ==
  /\ cli.at = "shutdown"
  /\ cpc[CliCaller] = "idle"
  /\ cli' = [at |-> "exit", shutdown |-> outcome[CliCaller]]
  /\ UNCHANGED browserVars
  /\ UNCHANGED notCli

\* util/puppeteer.ts lines 107-111: the 'beforeExit' handler calls
\* shutdown().
BeforeExit ==
  /\ cli.at = "exit"
  /\ acquire(CliCaller, "shutdown")
  /\ cli' = [cli EXCEPT !.at = "beforeExit"]
  /\ UNCHANGED <<browser, got, launchLog, closes, live, handed>>
  /\ UNCHANGED notCli

\* The handler's shutdown() settled: the process exits.
Exit ==
  /\ cli.at = "beforeExit"
  /\ cpc[CliCaller] = "idle"
  /\ cli' = [cli EXCEPT !.at = "exited"]
  /\ UNCHANGED browserVars
  /\ UNCHANGED notCli

(***************************************************************************)
(* SheetConverter.export (SheetConverter.js)                               *)
(*                                                                         *)
(* The <data> of the sheet is a sequence of rows, a row a sequence of the  *)
(* texts of its cells, '' for a cell without text.  Rows and columns are   *)
(* counted from 0, as cheerio's each() and xlsx count them.                *)
(***************************************************************************)

\* Number of rows of a sheet, and of cells of a row.
MaxRows == 2

MaxCells == 2

\* The names xlsx gives the columns.
ColumnNames == <<"A", "B", "C", "D", "E", "F">>

\* xlsx.utils.encode_cell: the A1-style name of the cell.
encode_cell(cell) == ColumnNames[cell.c + 1] \o ToString(cell.r + 1)

\* xlsx.utils.encode_range.
encode_range(range) == encode_cell(range.s) \o ":" \o encode_cell(range.e)

\* The inner each() of export (lines 71-82) from the c-th cell of the row
\* on: `end` after it.
RECURSIVE eachCell(_, _, _, _)
eachCell(row, r, c, end) ==
  IF c >= Len(row) THEN end
  ELSE eachCell(row, r, c + 1,
                IF row[c + 1] # "" THEN [r |-> r, c |-> c] ELSE end)

\* The outer each() of export (lines 69-83) from the r-th row on.
RECURSIVE eachRow(_, _, _)
eachRow(rows, r, end) ==
  IF r >= Len(rows) THEN end
  ELSE eachRow(rows, r + 1, eachCell(rows[r + 1], r, 0, end))

\* Lines 66-87: the worksheet export makes of the rows, the names of the
\* cells it holds and its `!ref`.
worksheet(rows) ==
  [cells |-> {encode_cell([r |-> r, c |-> c]) :
                <<r, c>> \in {x \in (0..(Len(rows) - 1)) \X (0..(MaxCells - 1)) :
                               /\ x[2] < Len(rows[x[1] + 1])
                               /\ rows[x[1] + 1][x[2] + 1] # ""}},
   ref |-> encode_range([s |-> [r |-> 0, c |-> 0],
                         e |-> eachRow(rows, 0, [r |-> 0, c |-> 0])])]

\* export (lines 56-104) is called for a sheet with the rows; local: both
\* volumes are the local file system.
Export ==
  /\ sheet.stage = "called"
  /\ sheet' = IF sheet.local
              THEN [stage |-> "written", rows |-> sheet.rows,
                    local |-> sheet.local,
                    worksheet |-> worksheet(sheet.rows)]
              ELSE [stage |-> "rejected", rows |-> sheet.rows,
                    local |-> sheet.local]
  /\ UNCHANGED notSheet

(***************************************************************************)
(* Specification of the facade                                             *)
(***************************************************************************)

\* At most MaxFailing of the codec modules fail to load.
MaxFailing == 1

\* No call of the facade was made.
FacadeIdle ==
  /\ api = "none"
  /\ args = Args(UNDEF, UNDEF, FALSE, UNDEF, UNDEF)
  /\ pc = "idle"
  /\ result = Pending
  /\ events = <<>>
  /\ node = UNDEF
  /\ outputFile = NoFile
  /\ written = <<>>
  /\ launched = 0
  /\ fetched = 0
  /\ mpc = "idle"
  /\ mContent = UNDEF
  /\ mFormat = UNDEF
  /\ mIsOutput = FALSE
  /\ fileName = UNDEF
  /\ extName = UNDEF
  /\ mediaType = UNDEF
  /\ idx = 0
  /\ codec = NoCodec
  /\ imports = <<>>
  /\ tested = <<>>
  /\ matchedBy = "none"
  /\ message = UNDEF

\* util/puppeteer.ts lines 48-49 with the callers it will have.
\* SheetConverter.export was not called.
SheetIdle == sheet = [stage |-> "idle"]

\* The CLI is not running.
CliIdle == cli = [at |-> "idle", shutdown |-> "none"]

BrowserIdle ==
  /\ browser = 0
  /\ lockHolder = 0
  /\ lockQueue = <<>>
  /\ cpc = [p \in Callers |-> "idle"]
  /\ cop = [p \in Callers |-> "none"]
  /\ calls = [p \in Callers |-> 0]
  /\ got = [p \in Callers |-> 0]
  /\ waited = {}
  /\ launchLog = <<>>
  /\ closes = 0
  /\ live = {}
  /\ handed = {}
  /\ outcome = [p \in Callers |-> "none"]

\* encodeArticle was not called.
JatsIdle ==
  /\ stage = "idle"
  /\ state = initialEncodeState
  /\ xrefs = <<>>
  /\ references = <<>>
  /\ bodyNodes = <<>>
  /\ earlier = <<>>

\* The Markdown codec was not called.
MdIdle ==
  /\ mdStage = "idle"
  /\ mdArticle = NoNode
  /\ mdString = NoNode
  /\ mdDecoded = NoNode

\* The JATS codec was not called.
XmlIdle ==
  /\ xmlStage = "idle"
  /\ xmlBody = NoNode
  /\ xmlDoc = NoNode
  /\ xmlDecoded = NoNode

Init ==
  /\ failing \in {F \in SUBSET Unreliable : Cardinality(F) <= MaxFailing}
  /\ fileHasJats \in BOOLEAN
  /\ mdEmpty \in BOOLEAN
  /\ FacadeIdle
  /\ BrowserIdle
  /\ CliIdle
  /\ SheetIdle
  /\ JatsIdle
  /\ MdIdle
  /\ XmlIdle

Next ==
  \/ \E c \in MaybeContents, f \in MaybeFormats, o \in BOOLEAN : CallMatch(c, f, o)
  \/ \E c \in MaybeContents, f \in MaybeFormats : CallHandled(c, f)
  \/ \E c \in MaybeContents, f \in MaybeFormats : CallDecode(c, f)
  \/ \E p \in MaybePaths, f \in MaybeFormats : CallEncode(p, f)
  \/ \E i \in ConvertInputs, o \in OutputPaths, t \in ToFormats, f \in FromFormats :
       CallConvert(i, o, t, f)
  \/ EncodeEntry
  \/ MatchFastPath
  \/ MatchLoad
  \/ MatchTest
  \/ MatchReturn
  \/ MatchThrow
  \/ CodecDecode
  \/ CodecEncode
  \/ ConvertWrite

Spec == Init /\ [][Next]_vars

\* The callers of the shared browser alone.
InitBrowser ==
  /\ failing = {}
  /\ fileHasJats = FALSE
  /\ mdEmpty = FALSE
  /\ FacadeIdle
  /\ BrowserIdle
  /\ CliIdle
  /\ SheetIdle
  /\ JatsIdle
  /\ MdIdle
  /\ XmlIdle

NextBrowser ==
  \/ \E p \in Callers : CallStartup(p)
  \/ \E p \in Callers : CallShutdown(p)
  \/ \E p \in Callers : StartupCheck(p)
  \/ \E p \in Callers : LaunchDone(p)
  \/ \E p \in Callers : LaunchFailed(p)
  \/ \E p \in Callers : ShutdownCheck(p)
  \/ \E p \in Callers : CloseDone(p)
  \/ \E p \in Callers : CloseFailed(p)

SpecBrowser == InitBrowser /\ [][NextBrowser]_vars

\* C1: under any interleaving of startup() and shutdown() calls the
\* critical sections never overlap, the browser is launched at most once
\* while no shutdown closed one, and all the callers that startup answers
\* between two closes receive the same browser.
C1_OneBrowser ==
  /\ Cardinality({p \in Callers : cpc[p] \in Critical}) <= 1
  /\ lockHolder # 0 <=> \E p \in Callers : cpc[p] \in Critical
  /\ \A p \in Callers : cpc[p] \in Critical => lockHolder = p
  /\ \A i, j \in DOMAIN launchLog : launchLog[i] = launchLog[j] => i = j
  /\ \A x, y \in handed : x[1] = y[1] => x[2] = y[2]
  /\ Cardinality(live) <= 1

\* C1 witness: two callers were answered the same browser, one of them
\* after its startup had waited for the lock while the other launched.
C1_Witness ==
  \E p, q \in Callers :
    /\ p # q
    /\ q \in waited
    /\ p \notin waited
    /\ cop[p] = "startup" /\ cop[q] = "startup"
    /\ cpc[p] = "idle" /\ cpc[q] = "idle"
    /\ got[p] = got[q]
    /\ got[p] # 0
    /\ Len(launchLog) = 1

\* The Markdown codec alone, given an Article to encode and decode again,
\* or Markdown text to decode.
InitMd ==
  /\ failing = {}
  /\ fileHasJats = FALSE
  /\ mdEmpty = FALSE
  /\ FacadeIdle
  /\ BrowserIdle
  /\ CliIdle
  /\ SheetIdle
  /\ JatsIdle
  /\ XmlIdle
  /\ mdDecoded = NoNode
  /\ \/ /\ mdStage = "article"
        /\ mdArticle \in Articles
        /\ mdString = NoNode
     \/ /\ mdStage = "text"
        /\ mdArticle = NoNode
        /\ mdString \in MarkdownTexts

NextMd ==
  \/ EncodeMarkdown
  \/ DecodeMarkdown

SpecMd == InitMd /\ [][NextMd]_vars

\* encodeArticle of the JATS codec alone.
InitJats ==
  /\ failing = {}
  /\ fileHasJats = FALSE
  /\ mdEmpty = FALSE
  /\ FacadeIdle
  /\ BrowserIdle
  /\ CliIdle
  /\ SheetIdle
  /\ JatsIdle
  /\ MdIdle
  /\ XmlIdle

NextJats ==
  \/ EncodeArticle
  \/ \E type \in NodeTypes, target \in CiteTargets :
       EncodeBodyNode(type, target)
  \/ EncodeBodyDone
  \/ \E work \in Works : EncodeReference(work)
  \/ EncodeArticleDone

SpecJats == InitJats /\ [][NextJats]_vars

\* The references of the article with the id rid.
withId(rid) ==
  {i \in DOMAIN references :
     references[i].kind = "CreativeWork" /\ references[i].id = rid}

\* The text an <xref> contains; an element without children contains the
\* empty text.
textOf(xref) == IF xref.elements = <<>> THEN "" ELSE xref.elements[1]

\* C2: when encodeArticle finishes, every <xref> made for a Cite whose
\* target is the id of an entry of article.references contains the citation
\* text generated for that reference.
C2_CitesPopulated ==
  stage = "done" =>
    \A k \in DOMAIN xrefs :
      withId(xrefs[k].rid) # {} =>
        \E i \in withId(xrefs[k].rid) :
          textOf(xrefs[k]) = encodeCitationText(references[i])

(***************************************************************************)
(* Properties of match and of the facade                                   *)
(***************************************************************************)

\* The codec matches the resolved keys of the running match by file name,
\* extension name or media type (sniffing left out).
keyMatches(cd) ==
  criterion(cd, UNDEF, fileName, extName, mediaType, FALSE) # "none"

\* The list entry can be loaded.
loadable(k) == importOk(codecList[k], failing)

\* The loadable list entry satisfies one of the four criteria.
satisfies(k) ==
  /\ loadable(k)
  /\ criterion(getCodec(codecList[k]), mContent, fileName, extName,
               mediaType, fileHasJats) # "none"

\* The step machine of match computes the function match.
MatchAgrees ==
  (api = "match" /\ pc = "done") =>
    LET m == match(args.content, args.format, args.isOutput, failing,
                   fileHasJats)
    IN  /\ (result.status = "resolved") <=> m.ok
        /\ m.ok => result.value = m.codec /\ matchedBy = m.by

\* C3: for a content path of any extension, match(content,
\* 'application/jats+xml') returns the JATS codec (here: even when every
\* module loads).
C3_MediaTypeFormatDecides ==
  (/\ api = "match"
   /\ pc = "done"
   /\ failing = {}
   /\ args.content \in Paths
   /\ args.format = "application/jats+xml")
    => result = Resolved("jats")

\* C4: whenever some codec of the list matches by fileName, extName or
\* mediaType, match never returns a different codec that matched only
\* because its sniff returned true.
C4_SniffNeverBeatsKey ==
  (mpc = "return" /\ matchedBy = "sniff") =>
    ~ \E k \in 1..Len(codecList) :
        loadable(k) /\ keyMatches(getCodec(codecList[k]))

\* C4 as amended: the list is scanned in order and each codec is tested by
\* its keys before its sniff, so a codec returned from the scan is the first
\* loadable entry that satisfies any criterion, and a codec returned because
\* it sniffed matches no key itself.
C4_FirstInListOrder ==
  (mpc = "return" /\ matchedBy \notin {"module", "none"}) =>
    /\ codec = getCodec(codecList[idx])
    /\ satisfies(idx)
    /\ \A j \in 1..(idx - 1) : ~satisfies(j)
    /\ matchedBy = "sniff" => ~keyMatches(codec)

\* C4 witness: a codec is returned for its sniff while a later entry of the
\* list matches the request by a key.
C4_Witness ==
  /\ mpc = "return"
  /\ matchedBy = "sniff"
  /\ \E k \in (idx + 1)..Len(codecList) :
       loadable(k) /\ keyMatches(getCodec(codecList[k]))

\* C5: a module that fails to load makes only its own codec unavailable:
\* the codec tested for a list entry is that entry's own, match throws only
\* after it tested every loadable entry, and what it throws is its own
\* error.
C5_LoadFailureSkipsOneCodec ==
  /\ \A k \in 1..Len(tested) : tested[k][2] = tested[k][1]
  /\ mpc = "throw" =>
       \A k \in 1..Len(codecList) :
         loadable(k) =>
           \E j \in 1..Len(tested) : tested[j] = <<codecList[k], codecList[k]>>
  /\ mpc = "throw" => ~ \E k \in 1..Len(codecList) : satisfies(k)
  /\ (api = "match" /\ pc = "done" /\ result.status = "rejected") =>
       result.value = noCodecMessage(args.content, args.format)

\* C6: match fails exactly when neither the fast path nor a codec of the
\* list satisfies a criterion; the message names the content and the format
\* that were given; match(undefined, undefined) always fails.
C6_FailsExactlyWhenNothingMatches ==
  (api = "match" /\ pc = "done") =>
    LET fast == importOk(extName, failing) /\ getCodec(extName).name # UNDEF
        some == \E k \in 1..Len(codecList) : satisfies(k)
    IN  /\ (result.status = "rejected") <=> ~(fast \/ some)
        /\ result.status = "rejected" =>
             result.value = noCodecMessage(args.content, args.format)
        /\ (args.content = UNDEF /\ args.format = UNDEF) =>
             result = Rejected("No codec could be found.")

\* C7: handled never throws; it returns true exactly when match(content,
\* format) returns a codec and false exactly when match fails.
C7_HandledIsMatch ==
  api = "handled" =>
    /\ result.status # "rejected"
    /\ pc = "done" =>
         /\ result.status = "resolved"
         /\ result.value \in {"true", "false"}
         /\ (result.value = "true") <=>
              match(args.content, args.format, FALSE, failing, fileHasJats).ok

\* C7 witness: match failed for a given content and handled returned false.
C7_Witness ==
  /\ api = "handled"
  /\ pc = "done"
  /\ Truthy(args.content)
  /\ result = Resolved("false")

\* C8: encode with neither filePath nor format fails before any codec is
\* matched or loaded; with one of them it returns the encode result of the
\* codec that match(filePath, format, true) selects.
C8_EncodeNeedsFilePathOrFormat ==
  api = "encode" =>
    IF args.outputPath = UNDEF /\ args.to = UNDEF
    THEN /\ imports = <<>>
         /\ mpc = "idle"
         /\ pc = "done" =>
              result = Rejected("At least one of \"filePath\" or \"format\" option must be provided")
    ELSE /\ mpc # "idle" =>
              mContent = args.outputPath /\ mFormat = args.to /\ mIsOutput
         /\ pc = "done" =>
              LET m == match(args.outputPath, args.to, TRUE, failing, fileHasJats)
                  r == codecEncode(m.codec, args.outputPath, mdEmpty)
              IN  result = IF ~m.ok
                           THEN Rejected(noCodecMessage(args.outputPath, args.to))
                           ELSE IF r.ok THEN Resolved(r.value)
                           ELSE Rejected(r.value)

\* C8 witness: encode was refused for its options, no module imported.
C8_Witness ==
  /\ api = "encode"
  /\ pc = "done"
  /\ args.outputPath = UNDEF
  /\ args.to = UNDEF
  /\ result.status = "rejected"
  /\ imports = <<>>

\* What encode does for the arguments of the call: refused options, no
\* codec, or the outcome of the matched codec's encode.
encodeOutcome ==
  LET m == match(args.outputPath, args.to, TRUE, failing, fileHasJats)
  IN  IF args.outputPath = UNDEF /\ args.to = UNDEF
      THEN Outcome(FALSE, "options", 0, 0, <<>>)
      ELSE IF ~m.ok THEN Outcome(FALSE, "no codec", 0, 0, <<>>)
      ELSE codecEncode(m.codec, args.outputPath, mdEmpty)

\* The positions of `written` that hold a write by convert / by a codec's
\* encode.
writesByConvert == {k \in DOMAIN written : written[k][2] = "vfile.write"}

writesByEncode == {k \in DOMAIN written : written[k][2] = "page.pdf"}

\* decode ended before encode started.
decodeBeforeEncode ==
  /\ Len(events) >= 2
  /\ events[1] = "decode:start"
  /\ events[2] = "decode:end"
  /\ \A k \in DOMAIN events : events[k] = "encode:start" => k = 3

\* C9: for a convert whose decode succeeds, decode completes before encode
\* starts; with an outputPath the encoded file is written to it exactly
\* once; without one nothing is written and the serialized content is
\* returned.
C9_ConvertWritesOnce ==
  (api = "convert" /\ \E k \in DOMAIN events : events[k] = "decode:end") =>
    /\ decodeBeforeEncode
    /\ pc = "done" =>
         IF Truthy(args.outputPath)
         THEN Cardinality({k \in DOMAIN written :
                             written[k][1] = args.outputPath}) = 1
         ELSE /\ writesByConvert \cup writesByEncode = {}
              /\ result = Resolved(outputFile.contents)
              /\ Truthy(outputFile.contents)

\* C9 as amended: decode completes before encode starts; if encode fails,
\* convert rejects and never calls vfile.write; if encode succeeds and
\* outputPath is given, convert calls vfile.write(outputFile, outputPath)
\* exactly once, as its last step after encode (a codec that is given the
\* path may have written the file once itself before); if outputPath is not
\* given neither encode nor convert writes a file; convert returns the
\* contents of the encoded file when they are not empty and the file's
\* path otherwise.
C9_ConvertChains ==
  (api = "convert" /\ \E k \in DOMAIN events : events[k] = "decode:end") =>
    /\ decodeBeforeEncode
    /\ pc = "done" =>
         IF ~encodeOutcome.ok
         THEN result.status = "rejected" /\ writesByConvert = {}
         ELSE /\ result = Resolved(IF Truthy(encodeOutcome.value)
                                   THEN encodeOutcome.value
                                   ELSE UNDEF)
              /\ IF Truthy(args.outputPath)
                 THEN /\ Cardinality(writesByConvert) = 1
                      /\ written[Len(written)] = <<args.outputPath, "vfile.write">>
                      /\ Cardinality(writesByEncode) <= 1
                      /\ events = <<"decode:start", "decode:end",
                                    "encode:start", "encode:end", "write">>
                 ELSE /\ writesByConvert \cup writesByEncode = {}
                      /\ events = <<"decode:start", "decode:end",
                                    "encode:start", "encode:end">>

\* C9 witness: a convert with an outputPath ended with the one write.
C9_Witness ==
  /\ api = "convert"
  /\ pc = "done"
  /\ Truthy(args.outputPath)
  /\ result.status = "resolved"
  /\ written = <<<<args.outputPath, "vfile.write">>>>

\* C10: decode of the PDF codec and encode of the DOI and PLoS codecs
\* reject with their error, whatever the input, and launch no browser,
\* fetch nothing and write no file.
C10_UnsupportedRejects ==
  [][/\ (pc = "codecDecode" /\ codec.name = "pdf") =>
          /\ result' = Rejected("Parsing of PDF files is not supported.")
          /\ UNCHANGED effectVars
     /\ (pc = "codecEncode" /\ codec.name = "doi") =>
          /\ result' = Rejected("Unparsing to DOI is not yet implemented")
          /\ UNCHANGED effectVars
     /\ (pc = "codecEncode" /\ codec.name = "plos") =>
          /\ result' = Rejected("Encoding to a PLoS article is not yet implemented")
          /\ UNCHANGED effectVars]_vars

\* C10 witness: the PDF codec refused to decode and the world is untouched.
C10_Witness ==
  /\ pc = "done"
  /\ codec.name = "pdf"
  /\ result = Rejected("Parsing of PDF files is not supported.")
  /\ launched = 0
  /\ fetched = 0
  /\ written = <<>>

(***************************************************************************)
(* Properties of the Markdown codec                                        *)
(***************************************************************************)

\* The nodes inside a node: its content, items and outputs.
childrenOf(n) ==
  IF "content" \in DOMAIN n THEN n.content
  ELSE IF "items" \in DOMAIN n THEN n.items
  ELSE IF "outputs" \in DOMAIN n THEN n.outputs
  ELSE <<>>

RECURSIVE nodesIn(_)
\* A node and all the nodes inside it.
nodesIn(n) ==
  {n} \cup UNION {nodesIn(childrenOf(n)[i]) : i \in DOMAIN childrenOf(n)}

\* The Markdown-native node types.
NativeTypes ==
  {"Article", "Heading", "Paragraph", "Emphasis", "Strong", "List",
   "ListItem", "QuoteBlock", "CodeBlock", "ThematicBreak", "Text"}

isNative(article) == \A n \in nodesIn(article) : n.type \in NativeTypes

sequencesIn(article) ==
  {childrenOf(n) : n \in nodesIn(article)}

\* The encoder and the parser leave the node as it is: a paragraph is not
\* empty, a text is not empty, spells no extension and has no new line, a
\* code block ends with no white space.
isPlain(n) ==
  /\ n.type = "Paragraph" => ~isEmptyParagraph(n.content)
  /\ n.type = "Text" =>
       /\ n.value # ""
       /\ collapse(n.value) = n.value
       /\ \A name \in GENERIC_EXTENSIONS : n.value # "!" \o name
  /\ n.type = "CodeBlock" => trimRight(n.text) = n.text

\* No two texts and no two lists of one kind are next to each other.
isSeparated(nodes) ==
  \A i \in DOMAIN nodes :
    i > 1 =>
      /\ ~(nodes[i].type = "Text" /\ nodes[i - 1].type = "Text")
      /\ ~(/\ nodes[i].type = "List"
           /\ nodes[i - 1].type = "List"
           /\ nodes[i].order = nodes[i - 1].order)

\* The decoder takes no title from the content.
keepsHeadings(article) ==
  \/ article.title # NoNode
  \/ \A i \in DOMAIN article.content :
       ~(article.content[i].type = "Heading" /\ article.content[i].depth = 1)

spelling(b) == IF b THEN "!true" ELSE "!false"

\* C13: a Paragraph with the boolean b is encoded to Markdown text with
\* `!true` or `!false`, and that text is decoded to a Paragraph with the
\* boolean b, not a string.
C13_BooleanExtension ==
  mdStage \in {"encoded", "roundtrip"} =>
    \A i \in DOMAIN mdArticle.content :
      LET p == mdArticle.content[i]
      IN  p.type = "Paragraph" =>
            \A k \in DOMAIN p.content :
              p.content[k].type = "Boolean" =>
                /\ \E j \in DOMAIN mdString.blocks :
                     /\ mdString.blocks[j].block = "paragraph"
                     /\ \E x \in DOMAIN mdString.blocks[j].pieces :
                          mdString.blocks[j].pieces[x] =
                            chars(spelling(p.content[k].bool))
                /\ mdStage = "roundtrip" =>
                     \E j \in DOMAIN mdDecoded.content :
                       /\ mdDecoded.content[j].type = "Paragraph"
                       /\ Len(mdDecoded.content[j].content) = Len(p.content)
                       /\ mdDecoded.content[j].content[k] =
                            Boolean(p.content[k].bool)

\* C13 witness: a Paragraph with a text and the boolean false was encoded
\* and decoded to a Paragraph with the boolean false.
C13_Witness ==
  /\ mdStage = "roundtrip"
  /\ \E i \in DOMAIN mdArticle.content :
       mdArticle.content[i] = Paragraph(<<Text("a"), Boolean(FALSE)>>)
  /\ \E j \in DOMAIN mdDecoded.content :
       mdDecoded.content[j] = Paragraph(<<Text("a"), Boolean(FALSE)>>)
  /\ \E j \in DOMAIN mdString.blocks :
       mdString.blocks[j] =
         [block |-> "paragraph", pieces |-> <<chars("a"), chars("!false")>>]

RECURSIVE mdastIn(_)
\* An MDAST node and all the nodes inside it.
mdastIn(n) ==
  {n} \cup (IF hasChildren(n)
            THEN UNION {mdastIn(n.children[i]) : i \in DOMAIN n.children}
            ELSE {})

\* The trees encodeMarkdown makes for an Article: its own, and those of the
\* code chunks and figures in its content, which are encoded as Articles of
\* their own.
treesOf(article) ==
  {filter(mdEncodeNode(article))}
  \cup {filter(mdEncodeNode(Article(NoNode, UNDEF, chunkNodes(n)))) :
          n \in {n \in nodesIn(article) : n.type = "CodeChunk"}}
  \cup {filter(mdEncodeNode(Article(NoNode, UNDEF, n.content \o n.caption))) :
          n \in {n \in nodesIn(article) : n.type = "Figure"}}

\* C14: encoding to Markdown drops every empty Paragraph wherever it
\* occurs: no tree made holds a paragraph node without children (the node
\* of an empty Paragraph) or an undefined node.
C14_EmptyParagraphsDropped ==
  mdStage = "encoded" =>
    \A tree \in treesOf(mdArticle) :
      \A n \in mdastIn(tree) :
        /\ n # NoNode
        /\ n.type = "paragraph" => n.children # <<>>

\* C15: what decodeMarkdown returns holds no Paragraph with a block-level
\* child: block-level nodes decoded inside a paragraph are put between
\* Paragraphs of the inline runs around them.
C15_NoBlockInParagraph ==
  mdStage \in {"decoded", "roundtrip"} =>
    \A n \in nodesIn(mdDecoded) :
      n.type = "Paragraph" =>
        \A k \in DOMAIN n.content : ~isBlockContent(n.content[k])

\* The children of the root parsed from the text decoded, the front matter
\* among them and the body after it.
parsed == remarkParse(mdString).children

hasFrontMatter == parsed # <<>> /\ parsed[1].type = "yaml"

frontMatter == IF hasFrontMatter THEN parsed[1].frontmatter ELSE NoMeta

body == IF hasFrontMatter THEN Tail(parsed) ELSE parsed

startsWithH1 == body # <<>> /\ body[1].type = "heading" /\ body[1].depth = 1

\* C16: decodeMarkdown of a standalone document merges the front matter
\* into the Article; the title is the front matter's when the body does not
\* start with a depth-1 heading, and that heading's content when it does,
\* the heading then being left out of the content, also when the front
\* matter has a title.
C16_TitleOfDecodedArticle ==
  mdStage \in {"decoded", "roundtrip"} =>
    /\ mdDecoded.keywords = frontMatter.keywords
    /\ (frontMatter.title # NoNode /\ ~startsWithH1) =>
         mdDecoded.title = frontMatter.title
    /\ startsWithH1 =>
         /\ mdDecoded.title =
              headingTitle([i \in DOMAIN body[1].children |->
                              mdDecodeNode(body[1].children[i])])
         /\ mdDecoded.content =
              [i \in 1..(Len(body) - 1) |-> mdDecodeNode(body[i + 1])]

\* The output decodeCodeChunk is to give back for an output: the only
\* child of a Paragraph with one child, the output itself otherwise.
unwrapped(output) ==
  IF output.type = "Paragraph" /\ Len(output.content) = 1
  THEN output.content[1]
  ELSE output

\* C20: a CodeChunk with n >= 1 outputs is encoded as its code block and
\* its outputs with n - 1 thematic breaks between them, and decoded to a
\* CodeChunk with the same n outputs in order, a Paragraph with one child
\* unwrapped.
C20_OutputsOfCodeChunk ==
  ( /\ mdStage = "roundtrip"
    /\ Len(mdArticle.content) = 1
    /\ mdArticle.content[1].type = "CodeChunk"
    /\ Len(mdArticle.content[1].outputs) >= 1 ) =>
    LET chunk == mdArticle.content[1]
        nodes == chunkNodes(chunk)
        n == Len(chunk.outputs)
    IN  /\ nodes[1].type = "CodeBlock"
        /\ Cardinality({i \in DOMAIN nodes :
                          nodes[i].type = "ThematicBreak"}) = n - 1
        /\ Len(mdDecoded.content) = 1
        /\ mdDecoded.content[1].type = "CodeChunk"
        /\ mdDecoded.content[1].text = chunk.text
        /\ Len(mdDecoded.content[1].outputs) = n
        /\ \A i \in 1..n :
             mdDecoded.content[1].outputs[i] = unwrapped(chunk.outputs[i])

(***************************************************************************)
(* Properties of the JATS codec                                            *)
(***************************************************************************)

\* The JATS codec alone, given an Article to encode and decode again, or a
\* JATS document to decode.
InitXml ==
  /\ failing = {}
  /\ fileHasJats = FALSE
  /\ mdEmpty = FALSE
  /\ FacadeIdle
  /\ BrowserIdle
  /\ CliIdle
  /\ SheetIdle
  /\ JatsIdle
  /\ MdIdle
  /\ xmlDecoded = NoNode
  /\ \/ /\ xmlStage = "article"
        /\ xmlBody \in JatsArticles
        /\ xmlDoc = NoNode
     \/ /\ xmlStage = "document"
        /\ xmlBody = NoNode
        /\ xmlDoc \in JatsDocuments

NextXml ==
  \/ EncodeJats
  \/ DecodeJats

SpecXml == InitXml /\ [][NextXml]_vars

\* Two body nodes are the same Heading with the same depth and content,
\* the same Paragraph, or the same Table with the same rows and cells.
sameBodyNode(original, decoded) ==
  /\ original.type = decoded.type
  /\ CASE original.type = "Heading" ->
            /\ original.depth = decoded.depth
            /\ original.content = decoded.content
       [] original.type = "Paragraph" -> original.content = decoded.content
       [] original.type = "Table" -> original.rows = decoded.rows
       [] OTHER -> TRUE

\* C12: JATS round trip: for an Article whose body is built from Headings
\* of depth 1 to 6, Paragraphs and Tables, decoding the result of encoding
\* it yields the same sequence of body nodes, each Heading with its
\* original depth and each Table with its original rows and cells.
C12_JatsRoundTrip ==
  (/\ xmlStage = "roundtrip"
   /\ \A i \in DOMAIN xmlBody.content :
        xmlBody.content[i].type \in {"Heading", "Paragraph", "Table"})
  => /\ Len(xmlDecoded.content) = Len(xmlBody.content)
     /\ \A i \in DOMAIN xmlBody.content :
          sameBodyNode(xmlBody.content[i], xmlDecoded.content[i])

\* The section titles among elements, in document order, each with the
\* number of <sec> elements enclosing it and the id of the innermost one
\* ('' for a <sec> without id); enclosing are the <sec> elements around
\* elements, outermost first.
RECURSIVE sectionTitles(_, _, _)
sectionTitles(elements, k, enclosing) ==
  IF k > Len(elements) THEN <<>>
  ELSE LET c == elements[k]
           innermost == enclosing[Len(enclosing)]
       IN  (IF c.type = "element" /\ c.name = "title"
              THEN <<[depth |-> Len(enclosing),
                      id |-> IF enclosing = <<>> \/ attr(innermost, "id") = UNDEF
                               THEN ""
                               ELSE attr(innermost, "id")]>>
            ELSE IF c.type = "element" /\ c.name = "sec"
              THEN sectionTitles(c.elements, 1, Append(enclosing, c))
            ELSE <<>>)
           \o sectionTitles(elements, k + 1, enclosing)

\* The Headings of the decoded body, each with its depth and id.
decodedHeadings ==
  LET headings == SelectSeq(xmlDecoded.content,
                            LAMBDA n : n.type = "Heading")
  IN  [i \in DOMAIN headings |->
         [depth |-> headings[i].depth, id |-> headings[i].id]]

\* C17: decoding JATS gives every section <title> a Heading whose depth is
\* the number of <sec> elements enclosing it and whose id is the id of the
\* innermost enclosing <sec>; a title that follows a nested <sec> gets the
\* depth and id of its own section, as if the nested one had not been
\* decoded.
C17_HeadingsOfSections ==
  xmlStage \in {"decoded", "roundtrip"}
  => decodedHeadings
       = sectionTitles(child(xmlDoc, {"body"}).elements, 1, <<>>)

\* C17 witness: a document was decoded in which a <sec> with one id holds a
\* nested <sec> with another id and then a title: the nested title became a
\* Heading of depth 2, the title after it a Heading of depth 1 with the
\* outer id.
C17_Witness ==
  /\ xmlStage = "decoded"
  /\ \E i \in DOMAIN decodedHeadings :
       /\ i + 1 \in DOMAIN decodedHeadings
       /\ decodedHeadings[i] = [depth |-> 2, id |-> "s1"]
       /\ decodedHeadings[i + 1] = [depth |-> 1, id |-> "s1.2"]

\* The ids that a target '#id' of the model can refer to.
TargetIds == {"", "s1", "s1.2", "s1-2", "b.1.x", "b-1-x"}

\* The id contains a '.'.
dotted(id) == \E i \in DOMAIN charsOf(id) : charsOf(id)[i] = "."

\* The internal ids of the decoded Article: the targets of the Cites and
\* of the Links made from an rid in its paragraphs, and the ids of its
\* references, Headings, Figures and Tables.
decodedIds ==
  LET content == xmlDecoded.content
      inlines == UNION {{content[i].content[j] :
                           j \in DOMAIN content[i].content} :
                          i \in {k \in DOMAIN content :
                                   content[k].type = "Paragraph"}}
  IN  {n.target : n \in {x \in inlines : x.type = "Cite"}}
      \cup {CHOOSE id \in TargetIds : n.target = "#" \o id :
              n \in {x \in inlines : x.type = "Link"}}
      \cup {xmlDecoded.references[i].id : i \in DOMAIN xmlDecoded.references}
      \cup {content[i].id :
              i \in {k \in DOMAIN content :
                       content[k].type \in {"Heading", "Figure", "Table"}}}

\* C18: JATS decode normalizes every internal id and every reference to
\* one: no Cite target, no Link target made from an rid, and no id of a
\* decoded reference, section Heading, Figure or Table contains a '.', and
\* normalizing an id twice equals normalizing it once.
C18_InternalIdsNormalized ==
  xmlStage = "decoded"
  => /\ \A id \in decodedIds \ {UNDEF} : ~dotted(id)
     /\ \A id \in (SectionIds \cup XrefRids) \ {UNDEF} :
          decodeInternalId(decodeInternalId(id)) = decodeInternalId(id)

\* The Figure given to encodeArticle, the <fig> made for it, the Figure
\* decoded from that.
encodedFigure ==
  CHOOSE n \in {xmlBody.content[i] : i \in DOMAIN xmlBody.content} :
    n.type = "Figure"

figElement == first(xmlDoc, {"fig"})

decodedFigure ==
  CHOOSE n \in {xmlDecoded.content[i] : i \in DOMAIN xmlDecoded.content} :
    n.type = "Figure"

\* The children of <fig> other than its label and caption.
contentChildren ==
  SelectSeq(figElement.elements,
            LAMBDA c : ~(c.type = "element" /\ c.name \in {"label", "caption"}))

\* The encodings of the content nodes, one after the other, as the JATS
\* document holds them.
contentEncodings == serialized(encodeNodes(encodedFigure.content, 0))

oneElementEach ==
  \A j \in DOMAIN encodedFigure.content :
    Len(jatsEncodeNode(encodedFigure.content[j], 0)) = 1

FewTargets == {"bib1"}

FewWorks ==
  {[kind |-> "CreativeWork", id |-> r, authors |-> <<Person("Smith")>>,
    datePublished |-> <<"1990", "05">>] : r \in Rids}

\* encodeArticle called for one article after the other.
NextArticles ==
  \/ EncodeArticle
  \/ EncodeNextArticle
  \/ \E type \in NodeTypes, target \in FewTargets :
       EncodeBodyNode(type, target)
  \/ EncodeBodyDone
  \/ \E work \in FewWorks : EncodeReference(work)
  \/ EncodeArticleDone

SpecArticles == InitJats /\ [][NextArticles]_vars

\* The state and the <xref> elements of an encodeArticle call that starts
\* with initialEncodeState and encodes the first k of nodes.
RECURSIVE afterNodes(_, _)
afterNodes(nodes, k) ==
  IF k = 0 THEN [state |-> initialEncodeState, xrefs |-> <<>>]
  ELSE LET before == afterNodes(nodes, k - 1)
       IN  encodeNode(nodes[k].type, nodes[k].target,
                      before.state, before.xrefs)

\* The same after the first k of works, following all of nodes.
RECURSIVE afterWorks(_, _, _)
afterWorks(nodes, works, k) ==
  IF k = 0 THEN afterNodes(nodes, Len(nodes))
  ELSE LET before == afterWorks(nodes, works, k - 1)
       IN  encodeReference(works[k], before.state, before.xrefs)

InitCodecs == InitMd \/ InitXml

NextCodecs ==
  \/ EncodeMarkdown
  \/ DecodeMarkdown
  \/ EncodeJats
  \/ DecodeJats

SpecCodecs == InitCodecs /\ [][NextCodecs]_vars

\* The MDAST node types with a case in decodeNode of the Markdown codec
\* (lines 241-317), and those decodeArticle handles itself.
MdastTypesDecoded ==
  {"root", "yaml", "heading", "paragraph", "blockquote", "math", "code",
   "list", "listItem", "table", "thematicBreak", "link", "emphasis",
   "strong", "delete", "sub", "sup", "inlineMath", "inlineCode", "image",
   "text", "inline-extension", "block-extension", "html"}

\* The extension names with a case in decodeNode (lines 284-304).
ExtensionsDecoded ==
  {"chunk", "figure", "quote", "include", "null", "boolean", "true",
   "false", "number", "array", "object"}

\* The node types with a case in encodeNode of the Markdown codec
\* (lines 329-395).
MdTypesEncoded ==
  {"Article", "Include", "Heading", "Paragraph", "QuoteBlock", "MathBlock",
   "CodeBlock", "CodeChunk", "List", "ListItem", "Table", "Figure",
   "ThematicBreak", "Cite", "Link", "Emphasis", "Strong", "Delete",
   "Subscript", "Superscript", "Quote", "MathFragment", "CodeFragment",
   "CodeExpression", "ImageObject", "Text", "Null", "Boolean", "Number",
   "Array", "Object"}

\* The element names with a case in decodeElement of the JATS codec
\* (lines 1104-1143).
JatsNamesDecoded ==
  {"sec", "title", "p", "list", "table-wrap", "ext-link", "inline-graphic",
   "graphic", "media", "xref", "italic", "bold", "sup", "sub",
   "inline-formula", "disp-formula", "break", "fig", "fig-group", "code"}

\* The node types with a case in encodeNode of the JATS codec
\* (lines 1157-1196).
JatsTypesEncoded ==
  {"Heading", "Paragraph", "List", "Table", "Link", "Emphasis", "Strong",
   "Superscript", "Subscript", "MathFragment", "MathBlock", "Figure",
   "ImageObject", "MediaObject", "Cite", "Text", "Collection"}

RECURSIVE elementsIn(_)
\* An XML element and all the elements inside it.
elementsIn(e) ==
  IF e.type = "text" THEN {}
  ELSE {e} \cup UNION {elementsIn(e.elements[i]) : i \in DOMAIN e.elements}

paragraphOf(extension) ==
  Markdown(<<[block |-> "paragraph", pieces |-> <<extension>>]>>)

\* The documented default of a primitive extension.
defaultOf(name) ==
  CASE name = "boolean" -> Boolean(TRUE)
    [] name = "number" -> Number(0)
    [] name = "array" -> Array(<<>>)
    [] name = "object" -> Object(<<>>)

\* C24: a generic extension with no argument and no content decodes to its
\* documented default, `!boolean` to true, `!number` to 0, `!array` to []
\* and `!object` to {}; with both an argument and content the argument is
\* the one used, the result being that of the extension with the argument
\* alone.
C24_DefaultsOfExtensions ==
  (mdStage \in {"decoded", "rejected"}) =>
    \A p \in ExtensionPieces :
      (/\ mdString = paragraphOf(p)
       /\ p.name \in {"boolean", "number", "array", "object"}) =>
        /\ (p.argument = UNDEF /\ p.content = NoNode) =>
             /\ mdStage = "decoded"
             /\ mdDecoded.content = <<Paragraph(<<defaultOf(p.name)>>)>>
        /\ (p.argument # UNDEF /\ p.content # NoNode) =>
             LET alone ==
                   decodeMarkdown(
                     paragraphOf(extended(p.name, p.argument, NoNode)))
             IN  IF thrownIn(alone) THEN mdStage = "rejected"
                 ELSE mdStage = "decoded" /\ mdDecoded = alone

\* C25: decodeArticle takes a depth-1 heading as the title of the Article,
\* and leaves it out of the content, only when the heading is the first node
\* of the body: when the body starts with another node and the front matter
\* has no title, the Article has no title and every node of the body,
\* depth-1 headings included, is decoded into the content.
C25_TitleOnlyOfFirstHeading ==
  ( /\ mdStage \in {"decoded", "roundtrip"}
    /\ frontMatter.title = NoNode
    /\ body # <<>>
    /\ ~startsWithH1 ) =>
      /\ mdDecoded.title = NoNode
      /\ mdDecoded.content = [i \in DOMAIN body |-> mdDecodeNode(body[i])]

(***************************************************************************)
(* Properties of the JATS encoder's citations and tables                   *)
(***************************************************************************)

\* The first reference of the article with the id rid.
firstWithId(rid) == CHOOSE i \in withId(rid) : \A j \in withId(rid) : i <= j

\* C27: after any sequence of encodeCite and encodeReference calls sharing
\* one EncodeState, every <xref> has at most one text child, and the <xref>s
\* with the rid of an encoded reference all carry the citation text of the
\* first reference encoded with that id.  The Cites of the Paragraphs of
\* article.content are the ones encoded with the state of encodeArticle.
C27_TextOfFirstReference ==
  \A k \in DOMAIN xrefs :
    /\ Len(xrefs[k].elements) <= 1
    /\ (bodyNodes[k].type = "Paragraph" /\ withId(xrefs[k].rid) # {}) =>
         textOf(xrefs[k])
           = encodeCitationText(references[firstWithId(xrefs[k].rid)])

\* C28: within one encodeArticle call the k-th Table in document order,
\* Tables inside the content of a Figure included, gets the label
\* `Table k.`: the labels of the encoded article are distinct and
\* consecutive from 1.
C28_TablesLabelledInOrder ==
  (xmlStage \in {"encoded", "roundtrip"}) =>
    LET wraps == all(load(xmlDoc), {"table-wrap"})
    IN  \A k \in DOMAIN wraps :
          child(wraps[k], {"label"}).elements
            = <<xmlText("Table " \o ToString(k) \o ".")>>

(***************************************************************************)
(* Properties of decodeParagraph of the JATS codec                         *)
(***************************************************************************)

\* The length of the run of inline nodes nodes starts with.
RECURSIVE runLength(_)
runLength(nodes) ==
  IF nodes = <<>> \/ ~isInline(nodes[1]) THEN 0
  ELSE 1 + runLength(Tail(nodes))

\* The nodes with every maximal run of inline nodes in one Paragraph and
\* every other node as it is.
RECURSIVE grouped(_)
grouped(nodes) ==
  IF nodes = <<>> THEN <<>>
  ELSE IF ~isInline(nodes[1]) THEN <<nodes[1]>> \o grouped(Tail(nodes))
  ELSE <<Paragraph(SubSeq(nodes, 1, runLength(nodes)))>>
       \o grouped(SubSeq(nodes, runLength(nodes) + 1, Len(nodes)))

\* C29: decodeParagraph, for a <p> whose children decode to the nodes S,
\* returns the block-level nodes of S unwrapped and every maximal run of
\* inline nodes of S as the content of one Paragraph, in the order of S,
\* and no empty Paragraph when S is not empty, in particular none before a
\* leading block-level node.
C29_ParagraphBrokenApart ==
  (xmlStage \in {"decoded", "roundtrip"}) =>
    \A e \in elementsIn(load(xmlDoc)) :
      LET S == decodeElements(e.elements, initialDecodeState)
      IN  (e.name = "p" /\ S # <<>>) =>
            decodeParagraph(e, initialDecodeState) = grouped(S)

(***************************************************************************)
(* Properties of page() and of the CLI                                     *)
(***************************************************************************)

\* The callers of the shared browser calling startup(), page() and
\* shutdown().
NextPages ==
  \/ NextBrowser
  \/ \E p \in Callers : CallPage(p)
  \/ \E p \in Callers : NewPage(p)

SpecPages == InitBrowser /\ [][NextPages]_vars

\* C26: under any interleaving of page() and shutdown() calls, the browser
\* startup() returned inside page() is still open when page() calls
\* newPage on it: shutdown() has not closed it and is not closing it.
C26_NewPageOnOpenBrowser ==
  \A p \in Callers :
    cpc[p] = "newPage" =>
      /\ got[p] \in live
      /\ \A q \in Callers : cpc[q] # "closing"

\* The CLI run with a command.
InitCli ==
  /\ failing = {}
  /\ fileHasJats = FALSE
  /\ mdEmpty = FALSE
  /\ FacadeIdle
  /\ BrowserIdle
  /\ JatsIdle
  /\ MdIdle
  /\ XmlIdle
  /\ SheetIdle
  /\ cli = [at |-> "start", shutdown |-> "none"]

NextCli ==
  \/ \E command \in Commands : CliCommand(command)
  \/ \E p \in Callers : CliConvertPage(p)
  \/ \E p \in Callers : StartupCheck(p)
  \/ \E p \in Callers : LaunchDone(p)
  \/ \E p \in Callers : LaunchFailed(p)
  \/ \E p \in Callers : NewPage(p)
  \/ \E threw \in BOOLEAN : CliConvertSettled(threw)
  \/ CliFinally
  \/ \E p \in Callers : ShutdownCheck(p)
  \/ \E p \in Callers : CloseDone(p)
  \/ \E p \in Callers : CloseFailed(p)
  \/ CliShutdownSettled
  \/ BeforeExit
  \/ Exit

\* The event loop runs every continuation that is ready, and a launch, a
\* close and a convert settle.
SpecCli == InitCli /\ [][NextCli]_vars /\ WF_vars(NextCli)

\* C23: the browser is released by the CLI and not by a conversion: up to
\* the `finally` of the main function no shutdown was called and no browser
\* closed; the main function eventually calls shutdown, whether the convert
\* resolved, threw or the command was unknown; every browser launched is
\* open or was closed once; and when that shutdown resolved, the handle is
\* undefined, no browser is open, and the shutdown of the 'beforeExit'
\* handler closes nothing.
C23_BrowserReleasedByCli ==
  /\ [](cli.at \in {"start", "convert", "finally"} =>
          /\ closes = 0
          /\ \A p \in Callers : cop[p] # "shutdown")
  /\ <>(cli.at = "shutdown")
  /\ [](closes + Cardinality(live) = Len(launchLog))
  /\ []((cli.at \in {"exit", "beforeExit", "exited"}
         /\ cli.shutdown = "resolved") =>
          /\ browser = 0
          /\ live = {}
          /\ \A p \in Callers : cpc[p] # "closing")

\* A convert launched the browser, the shutdown of the main function
\* closed it, the handler's shutdown had nothing to close, and the process
\* exited.
C23_Witness ==
  /\ cli = [at |-> "exited", shutdown |-> "resolved"]
  /\ Len(launchLog) = 1
  /\ closes = 1
  /\ browser = 0

(***************************************************************************)
(* Properties of SheetConverter                                            *)
(***************************************************************************)

\* The rows of the sheets exported.
Rows ==
  UNION {[1..n -> UNION {[1..m -> {"", "x"}] : m \in 0..MaxCells}] :
           n \in 0..MaxRows}

InitSheet ==
  /\ failing = {}
  /\ fileHasJats = FALSE
  /\ mdEmpty = FALSE
  /\ FacadeIdle
  /\ BrowserIdle
  /\ CliIdle
  /\ JatsIdle
  /\ MdIdle
  /\ XmlIdle
  /\ sheet \in [stage : {"called"}, rows : Rows, local : BOOLEAN]

NextSheet == Export

SpecSheet == InitSheet /\ [][NextSheet]_vars

\* xlsx.utils.decode_range, of the ranges from A1: the last cell of the
\* range.
lastCell(ref) ==
  CHOOSE e \in [r : 0..MaxRows, c : 0..MaxCells] :
    ref = encode_range([s |-> [r |-> 0, c |-> 0], e |-> e])

\* C30: the `!ref` range of the worksheet export writes covers every cell
\* it wrote: a cell with text at row r and column c has r <= end.r and
\* c <= end.c for the range A1..end, rows of different lengths included.
C30_RangeCoversCells ==
  sheet.stage = "written" =>
    \A r \in DOMAIN sheet.rows : \A c \in DOMAIN sheet.rows[r] :
      sheet.rows[r][c] # "" =>
        /\ encode_cell([r |-> r - 1, c |-> c - 1]) \in sheet.worksheet.cells
        /\ r - 1 <= lastCell(sheet.worksheet.ref).r
        /\ c - 1 <= lastCell(sheet.worksheet.ref).c
==========================================================================
